---- MODULE Spec2Model ----
(***************************************************************************)
(* Verification model of HSBC Little Worker (MyFantasticToolkit).          *)
(*                                                                         *)
(* The module holds one state machine per subsystem.  Every subsystem has  *)
(* its own group of variables, its own initial condition and its own       *)
(* next-state relation; a subsystem's specification leaves the variables   *)
(* of the other subsystems at their initial values.                        *)
(*                                                                         *)
(*   SpecLauncher  src/main.py                      single-instance start  *)
(*   SpecPlugins   src/core/plugin_manager.py,      plugin life cycle and  *)
(*                 plugin_base.py, main_window.py   the tab bookkeeping    *)
(*   SpecPvr       plugins/period_variance_report   report worker thread   *)
(*   SpecHotkey    plugins/little_capturer          global hotkey manager  *)
(*   SpecServer    plugins/support_web_toolkit      child server control   *)
(***************************************************************************)
EXTENDS Integers, Sequences, FiniteSets, TLC

VARIABLES
    \* ---- launcher (src/main.py) ----
    pc,             \* position of every process inside main()
    listeners,      \* processes whose QLocalServer serves the endpoint
    conn,           \* per client process: its connection to a server
    win,            \* per process: state of the LittleWorkerApp window
    exitCode,       \* per process: the exit code, as a set; empty while alive
    launchedWhileRunning, \* history: launched while an instance ran the shell
    \* ---- plugin manager, plugin base, main window (src/core) ----
    pm_ready,       \* PluginManager constructed and load_plugins() has run
    cfgFile,        \* per plugin: content of <plugin>/config.json
    plugins,        \* PluginManager.plugins: name -> instance number, 0 = absent
    created,        \* per plugin: instances constructed by load_plugin so far
    initialized,    \* instances initialized and not yet cleaned up
    has_widget,     \* per plugin: the loaded instance holds a panel (_widget)
    enabled_plugins,\* plugin_configs['enabled_plugins'] (persisted)
    plugin_buttons, \* MainWindow.plugin_buttons
    signal_connected, \* plugin_widget_requested is connected to the manager
    tabs,           \* MainWindow.tab_widget: the pages, left to right
    current,        \* index of the selected tab, 0 when there is none
    plugin_widgets, \* MainWindow.plugin_widgets: name -> panel
    closedW,        \* panels on which close() was called (hidden pages)
    welcome_tab_index, \* MainWindow.welcome_tab_index, counted from 1
    discovered,     \* result of the last discover_plugins(): name -> report
    autoLoaded,     \* the plugins load_plugins() loaded at start-up
    lastOp,         \* the last manager call and its result
    \* ---- period variance report plugin ----
    pvr_csv,        \* csv_file_path: "none", "valid" (file exists) or "gone"
    pvr_thread,     \* self.worker_thread: number of the referenced worker, 0 = None
    pvr_wpc,        \* per worker: position of run() / _generate_report_process
    pvr_started,    \* number of workers started so far
    pvr_finished,   \* workers whose finished signal is queued for the GUI thread
    pvr_button,     \* generate_button.isEnabled()
    pvr_progress,   \* progress_bar.isVisible()
    pvr_rejected,   \* Generate requests rejected because a worker was running
    gui_writes,     \* <<widget, thread>>: the thread changed the widget directly
    pvr_aborted,    \* the process was aborted: a running QThread was destroyed
    \* ---- little capturer plugin and its hotkey manager ----
    lc_state,       \* plugin: "none", "initialized" or "cleaned"
    lc_setting,     \* the configured keyboard_shortcut, as a set: {} = not set
    hk_running,     \* GlobalHotkeyManager._running
    hk_hotkeys,     \* _hotkeys: normalized hotkey -> callback
    hk_listener,    \* _listener, as a set: {} = None, {m} = listening for m
    hk_pending,     \* _pending_callback, as a set: {} = None
    hk_triggers,    \* number of hotkey triggers seen by the hook thread
    capture_runs,   \* <<cause, thread>>: _start_capture ran for cause on thread
    overlay,        \* the capture overlay is shown
    hk_lastRegister,\* the last register_hotkey call: what it met and what it did
    \* ---- support web toolkit plugin ----
    srv_status,     \* server_status
    srv_url,        \* server_url is set
    srv_thread,     \* self.server_thread: thread number, 0 = None
    srv_tpc,        \* per thread: position of StreamlitServerThread.run
    srv_should_stop,\* per thread: should_stop
    srv_ref,        \* per thread: self.process is not None
    srv_child,      \* per thread: its child process, "none", "alive" or "dead"
    srv_queue,      \* signals queued for the GUI thread, <<thread, signal>>
    srv_start_enabled, \* start_button.isEnabled()
    srv_stop_enabled,  \* stop_button.isEnabled()
    srv_pending,    \* pending_tool_path, "none" = None
    srv_timer,      \* status_timer is active
    srv_wait_timer, \* a single shot of _wait_for_thread_finish is pending
    srv_open_timer, \* the tool a pending single shot will open, "none" = none
    srv_opened,     \* pages opened in the browser
    srv_started,    \* number of server threads started so far
    srv_lastStop,   \* the last click on the stop button and what it did
    srv_wantTool,   \* the page asked for by a tool button while the server was
                    \* stopped and not opened since, "none" = none
    srv_stopDone,   \* the last request of the user that took effect was a stop
                    \* that left the status stopped
    \* ---- little capturer: the capture overlay (CaptureWindow) ----
    cw,             \* the CaptureWindow: visibility, _selecting, _start_point,
                    \* _end_point, _selection_rect and the signals it emitted
                    \* since it was shown last
    mouse_down,     \* the left mouse button is held down
    drag_from,      \* where the running drag on the overlay began, {} = no drag
    cw_escPressed,  \* Escape reached the overlay since it was shown last
    cw_lastRelease, \* the last release the overlay saw and what it did
    \* ---- plugin contract: the compliance check of one plugin package ----
    pk_class,       \* the Plugin class: per identity field, declared or not
                    \* and the value getattr() yields
    pk_file,        \* <package>/config.json
    pk_seen,        \* config.json as each discovery scan found it
    pk_reports,     \* get_plugin_info() of each scan's temporary instance
    \* ---- little capturer: the image processor ----
    ip_current,     \* _current_image, as a set: {} = None
    ip_history,     \* _edit_history
    ip_index,        \* _edit_index, counted from 0 as in the source
    \* ---- web toolkit page Libre CMD: one workflow run of the page script ----
    wf_pc,          \* position of the page script: <<"idle", 0>>, <<"start", i>>
                    \* before step i's command, <<"cmd", i>> while it runs
    wf_results,     \* st.session_state.step_results: success of each step run
    wf_in_progress, \* st.session_state.execution_in_progress
    wf_radio,       \* per step: the state of the widget continue_radio_<i>
    wf_rerun,       \* a widget change asked for a rerun of the script
    wf_started,     \* steps whose command was sent in this run
    wf_abortedAt,    \* the failed step at which the user chose to stop, 0 = none
    \* ---- web toolkit page Libre CMD: one call of execute_ssh_command ----
    ssh_pc,         \* "idle", "loop" (in the read loop) or "returned"
    ssh_timeout,    \* the timeout argument, the step's timeout in seconds
    ssh_now,        \* seconds since start_time
    ssh_last,       \* last_activity, in seconds since start_time
    ssh_ret,         \* the pair returned: [success, msg]
    \* ---- web toolkit page Todo List ----
    td_todo,        \* config['todo_list']['todo']: the pending items
    td_done,        \* config['todo_list']['done']: items with a done_time
    td_now,         \* the clock, datetime.now(), in ticks
    td_added,       \* number of items added or restored so far
    td_lastPrune,    \* what the last run of clean_old_done_todos saw and did
    \* ---- a loaded plugin's config.json and its copy in memory ----
    st_file,        \* config.json: [available_config, settings]
    st_config,      \* the plugin's self._config
    st_lastSet,      \* the last set_setting call: the file before and after
    \* ---- little capturer: the capture button of the panel ----
    lc_button       \* the hotkey named in the button's text, <<"none">> while
                    \* the panel has not been created

launcherVars == <<pc, listeners, conn, win, exitCode, launchedWhileRunning>>

pluginVars == <<pm_ready, cfgFile, plugins, created, initialized, has_widget,
                enabled_plugins, plugin_buttons, signal_connected, tabs,
                current, plugin_widgets, closedW, welcome_tab_index, discovered,
                autoLoaded,
                lastOp>>

pvrVars == <<pvr_csv, pvr_thread, pvr_wpc, pvr_started, pvr_finished,
             pvr_button, pvr_progress, pvr_rejected, gui_writes, pvr_aborted>>

hotkeyVars == <<lc_state, lc_setting, hk_running, hk_hotkeys, hk_listener,
                hk_pending, hk_triggers, capture_runs, overlay,
                hk_lastRegister>>

serverVars == <<srv_status, srv_url, srv_thread, srv_tpc, srv_should_stop,
                srv_ref, srv_child, srv_queue, srv_start_enabled,
                srv_stop_enabled, srv_pending, srv_timer, srv_wait_timer,
                srv_open_timer, srv_opened, srv_started, srv_lastStop,
                srv_wantTool, srv_stopDone>>

captureVars == <<cw, mouse_down, drag_from, cw_escPressed, cw_lastRelease>>

contractVars == <<pk_class, pk_file, pk_seen, pk_reports>>

imageVars == <<ip_current, ip_history, ip_index>>

workflowVars == <<wf_pc, wf_results, wf_in_progress, wf_radio, wf_rerun, wf_started, wf_abortedAt>>

sshVars == <<ssh_pc, ssh_timeout, ssh_now, ssh_last, ssh_ret>>

todoVars == <<td_todo, td_done, td_now, td_added, td_lastPrune>>

settingsVars == <<st_file, st_config, st_lastSet>>

buttonVars == <<lc_button>>

nonWorkflowVars == <<launcherVars, pluginVars, pvrVars, hotkeyVars, serverVars,
    captureVars, contractVars, imageVars,
    sshVars,
    todoVars,
    settingsVars,
    buttonVars>>

nonSshVars == <<launcherVars, pluginVars, pvrVars, hotkeyVars, serverVars,
    captureVars, contractVars, imageVars, workflowVars,
    todoVars,
    settingsVars,
    buttonVars>>

nonTodoVars == <<launcherVars, pluginVars, pvrVars, hotkeyVars, serverVars,
    captureVars, contractVars, imageVars, workflowVars, sshVars,
    settingsVars,
    buttonVars>>

nonSettingsVars == <<launcherVars, pluginVars, pvrVars, hotkeyVars, serverVars,
    captureVars, contractVars, imageVars, workflowVars, sshVars, todoVars,
    buttonVars>>

nonButtonVars == <<launcherVars, pluginVars, pvrVars, hotkeyVars, serverVars,
    captureVars, contractVars, imageVars, workflowVars, sshVars, todoVars, settingsVars>>

nonHotkeyButtonVars == <<launcherVars, pluginVars, pvrVars, serverVars, captureVars,
    contractVars, imageVars, workflowVars, sshVars, todoVars, settingsVars>>

vars == <<launcherVars, pluginVars, pvrVars, hotkeyVars, serverVars,
          captureVars, contractVars, imageVars,
    workflowVars,
    sshVars,
    todoVars,
    settingsVars,
    buttonVars>>

nonImageVars == <<launcherVars, pluginVars, pvrVars, hotkeyVars, serverVars,
    captureVars, contractVars,
    workflowVars,
    sshVars,
    todoVars,
    settingsVars,
    buttonVars>>

nonCaptureVars == <<launcherVars, pluginVars, pvrVars, hotkeyVars, serverVars,
    contractVars, imageVars,
    workflowVars,
    sshVars,
    todoVars,
    settingsVars,
    buttonVars>>

nonContractVars == <<launcherVars, pluginVars, pvrVars, hotkeyVars, serverVars,
    captureVars, imageVars,
    workflowVars,
    sshVars,
    todoVars,
    settingsVars,
    buttonVars>>

nonLauncherVars == <<pluginVars, pvrVars, hotkeyVars, serverVars,
    captureVars, contractVars, imageVars,
    workflowVars,
    sshVars,
    todoVars,
    settingsVars,
    buttonVars>>

nonPluginVars == <<launcherVars, pvrVars, hotkeyVars, serverVars,
    captureVars, contractVars, imageVars,
    workflowVars,
    sshVars,
    todoVars,
    settingsVars,
    buttonVars>>

nonPvrVars == <<launcherVars, pluginVars, hotkeyVars, serverVars,
    captureVars, contractVars, imageVars,
    workflowVars,
    sshVars,
    todoVars,
    settingsVars,
    buttonVars>>

nonHotkeyVars == <<launcherVars, pluginVars, pvrVars, serverVars,
    captureVars, contractVars, imageVars,
    workflowVars,
    sshVars,
    todoVars,
    settingsVars,
    buttonVars>>

nonServerVars == <<launcherVars, pluginVars, pvrVars, hotkeyVars,
    captureVars, contractVars, imageVars,
    workflowVars,
    sshVars,
    todoVars,
    settingsVars,
    buttonVars>>

(***************************************************************************)
(* Launcher: src/main.py                                                   *)
(***************************************************************************)

\* Number of process launches considered.
NProcs == 3

Procs == 1..NProcs

NoConn == [srv |-> 0, st |-> "none", data |-> FALSE]

NoWin == [created |-> FALSE, visible |-> FALSE, minimized |-> FALSE, raised |-> FALSE]

LauncherInit ==
    /\ pc = [p \in Procs |-> "idle"]
    /\ listeners = {}
    /\ conn = [p \in Procs |-> NoConn]
    /\ win = [p \in Procs |-> NoWin]
    /\ exitCode = [p \in Procs |-> {}]
    /\ launchedWhileRunning = {}

\* The processes that run the application shell as primary instance.
Primaries == {p \in Procs : pc[p] = "running"}

\* main() up to waitForConnected(1000): get_app_config(), QLocalSocket(),
\* connectToServer.  The connection succeeds exactly when some process
\* serves the endpoint; it then waits in that server's backlog until the
\* server's event loop accepts it.
Launch(p) ==
    /\ pc[p] = "idle"
    /\ launchedWhileRunning' =
          IF Primaries # {} THEN launchedWhileRunning \cup {p}
                            ELSE launchedWhileRunning
    /\ IF listeners # {}
          THEN \E s \in listeners :
                  /\ conn' = [conn EXCEPT ![p] = [srv |-> s, st |-> "pending", data |-> FALSE]]
                  /\ pc' = [pc EXCEPT ![p] = "write"]
          ELSE /\ pc' = [pc EXCEPT ![p] = "create_app"]
               /\ UNCHANGED conn
    /\ UNCHANGED <<listeners, win, exitCode>>
    /\ UNCHANGED nonLauncherVars

\* socket.write(b"ACTIVATE"), waitForBytesWritten, disconnect, sys.exit(0).
SendActivate(p) ==
    /\ pc[p] = "write"
    /\ conn' = [conn EXCEPT ![p].data = TRUE]
    /\ pc' = [pc EXCEPT ![p] = "exited"]
    /\ exitCode' = [exitCode EXCEPT ![p] = {0}]
    /\ UNCHANGED <<listeners, win, launchedWhileRunning>>
    /\ UNCHANGED nonLauncherVars

\* QApplication(sys.argv); local_server.listen(name).  The result of
\* listen() is not looked at.  When the name is already served the call
\* fails (Unix, AddressInUseError) or adds a second server on the same pipe
\* (Windows); both outcomes are possible builds.
Listen(p) ==
    /\ pc[p] = "create_app"
    /\ pc' = [pc EXCEPT ![p] = "listened"]
    /\ IF listeners = {}
          THEN listeners' = {p}
          ELSE listeners' \in {listeners, listeners \cup {p}}
    /\ UNCHANGED <<conn, win, exitCode, launchedWhileRunning>>
    /\ UNCHANGED nonLauncherVars

\* LittleWorkerApp(), newConnection.connect, little_worker.show(), app.exec().
StartShell(p) ==
    /\ pc[p] = "listened"
    /\ pc' = [pc EXCEPT ![p] = "running"]
    /\ win' = [win EXCEPT ![p] = [created |-> TRUE, visible |-> TRUE,
                                  minimized |-> FALSE, raised |-> FALSE]]
    /\ UNCHANGED <<listeners, conn, exitCode, launchedWhileRunning>>
    /\ UNCHANGED nonLauncherVars

\* An exception during start-up is logged and the process exits with 1.
StartupException(p) ==
    /\ pc[p] = "listened"
    /\ pc' = [pc EXCEPT ![p] = "exited"]
    /\ exitCode' = [exitCode EXCEPT ![p] = {1}]
    /\ listeners' = listeners \ {p}
    /\ UNCHANGED <<conn, win, launchedWhileRunning>>
    /\ UNCHANGED nonLauncherVars

\* handle_new_connection: nextPendingConnection, readyRead.connect.
handle_new_connection(p, c) ==
    /\ pc[p] = "running"
    /\ conn[c].srv = p
    /\ conn[c].st = "pending"
    /\ conn' = [conn EXCEPT ![c].st = "accepted"]
    /\ UNCHANGED <<pc, listeners, win, exitCode, launchedWhileRunning>>
    /\ UNCHANGED nonLauncherVars

\* The window after show(), raise_(), activateWindow() and, if it is
\* minimized, showNormal().
ActivatedWindow(w) ==
    LET shown == [w EXCEPT !.visible = TRUE, !.raised = TRUE]
    IN  IF shown.minimized THEN [shown EXCEPT !.minimized = FALSE] ELSE shown

\* handle_client_message: readAll() returned b"ACTIVATE".
handle_client_message(p, c) ==
    /\ pc[p] = "running"
    /\ conn[c].srv = p
    /\ conn[c].st = "accepted"
    /\ conn[c].data
    /\ win' = [win EXCEPT ![p] = ActivatedWindow(win[p])]
    /\ conn' = [conn EXCEPT ![c] = [srv |-> p, st |-> "closed", data |-> FALSE]]
    /\ UNCHANGED <<pc, listeners, exitCode, launchedWhileRunning>>
    /\ UNCHANGED nonLauncherVars

\* The user minimizes the window.
Minimize(p) ==
    /\ pc[p] = "running"
    /\ win[p].visible
    /\ ~win[p].minimized
    /\ win' = [win EXCEPT ![p].minimized = TRUE, ![p].raised = FALSE]
    /\ UNCHANGED <<pc, listeners, conn, exitCode, launchedWhileRunning>>
    /\ UNCHANGED nonLauncherVars

\* closeEvent with a visible tray icon: hide() and ignore the event.
CloseToTray(p) ==
    /\ pc[p] = "running"
    /\ win[p].visible
    /\ win' = [win EXCEPT ![p].visible = FALSE, ![p].raised = FALSE]
    /\ UNCHANGED <<pc, listeners, conn, exitCode, launchedWhileRunning>>
    /\ UNCHANGED nonLauncherVars

\* _quit_application: QApplication.quit(), app.exec() returns, sys.exit.
Quit(p) ==
    /\ pc[p] = "running"
    /\ pc' = [pc EXCEPT ![p] = "exited"]
    /\ exitCode' = [exitCode EXCEPT ![p] = {0}]
    /\ listeners' = listeners \ {p}
    /\ win' = [win EXCEPT ![p] = NoWin]
    /\ UNCHANGED <<conn, launchedWhileRunning>>
    /\ UNCHANGED nonLauncherVars

LauncherNext ==
    \/ \E p \in Procs : Launch(p)
    \/ \E p \in Procs : SendActivate(p)
    \/ \E p \in Procs : Listen(p)
    \/ \E p \in Procs : StartShell(p)
    \/ \E p \in Procs : StartupException(p)
    \/ \E p, c \in Procs : handle_new_connection(p, c)
    \/ \E p, c \in Procs : handle_client_message(p, c)
    \/ \E p \in Procs : Minimize(p)
    \/ \E p \in Procs : CloseToTray(p)
    \/ \E p \in Procs : Quit(p)

(***************************************************************************)
(* Plugins: src/core/plugin_manager.py, plugin_base.py, main_window.py     *)
(***************************************************************************)

\* Most plugin instances constructed on request in one run of the model,
\* counting the ones start-up has constructed.
MaxLoads == 3

\* The plugin packages below src/plugins that the model follows.
Names == {"demo_plugin", "support_web_toolkit", "little_capturer"}

\* little_capturer's constructor connects to a plugin_config_changed signal
\* of the host's plugin manager; PluginManager declares no such signal, so
\* the constructor raises AttributeError inside the host application.
CtorRaises(n) == n = "little_capturer"

\* Only demo_plugin's cleanup() calls PluginBase.cleanup(), which closes the
\* panel; the other plugins override cleanup() without calling it.
CleanupClosesWidget(n) == n = "demo_plugin"

\* Values of available_config.enabled in a config.json: the key is absent,
\* a JSON boolean, a non-empty string or the number 0.
EnabledValues == {"absent", "true", "false", "str:yes", "int:0"}

NoFile == [present |-> FALSE, enabled |-> "absent"]

CfgValues == {NoFile} \cup [present : {TRUE}, enabled : EnabledValues]

\* isinstance(v, bool)
IsBool(v) == v \in {"true", "false"}

\* Python truth value of an enabled entry.
Truthy(v) == v \in {"true", "str:yes"}

\* _generate_config_file: plugin_info from the class, enabled = True.
GeneratedConfig == [present |-> TRUE, enabled |-> "true"]

\* _validate_config_file: the error_info it records, "" when it passes.
ValidateConfig(cfg) ==
    IF cfg.enabled = "absent"
        THEN "config.json missing required field: available_config.enabled"
    ELSE IF ~IsBool(cfg.enabled)
        THEN "config.json 'enabled' field must be boolean"
    ELSE ""

\* _check_plugin_compliance: the config file it leaves behind.
ComplianceFile(cfg) == IF cfg.present THEN cfg ELSE GeneratedConfig

\* _check_plugin_compliance: the error_info it records ("" = available).
ComplianceError(cfg) == IF cfg.present THEN ValidateConfig(cfg) ELSE ""

\* _load_plugin_config: self._enabled = available_config.get('enabled', True)
LoadedEnabled(cfg) == IF cfg.enabled = "absent" THEN "true" ELSE cfg.enabled

\* get_plugin_info() of a freshly constructed instance.
PluginInfo(cfg) ==
    [is_available |-> ComplianceError(cfg) = "",
     error_info   |-> ComplianceError(cfg),
     enabled      |-> LoadedEnabled(ComplianceFile(cfg))]

NoReport == [is_available |-> TRUE, error_info |-> "", enabled |-> "false"]

Welcome == <<"welcome", 0>>

NoWidget == <<"none", 0>>

NoOp == [op |-> "none", name |-> "none", result |-> TRUE, was_loaded |-> FALSE,
         load_emits |-> {}, initialize |-> "not called"]

\* The manager, the plugin files and the main window as one record, so that
\* a handler that calls other handlers is the composition of their effects.
PS ==
    [cfgFile |-> cfgFile, plugins |-> plugins, created |-> created,
     initialized |-> initialized, has_widget |-> has_widget,
     enabled_plugins |-> enabled_plugins, plugin_buttons |-> plugin_buttons,
     signal_connected |-> signal_connected, tabs |-> tabs, current |-> current,
     plugin_widgets |-> plugin_widgets, closedW |-> closedW,
     welcome_tab_index |-> welcome_tab_index, discovered |-> discovered]

SetPS(r) ==
    /\ cfgFile' = r.cfgFile
    /\ plugins' = r.plugins
    /\ created' = r.created
    /\ initialized' = r.initialized
    /\ has_widget' = r.has_widget
    /\ enabled_plugins' = r.enabled_plugins
    /\ plugin_buttons' = r.plugin_buttons
    /\ signal_connected' = r.signal_connected
    /\ tabs' = r.tabs
    /\ current' = r.current
    /\ plugin_widgets' = r.plugin_widgets
    /\ closedW' = r.closedW
    /\ welcome_tab_index' = r.welcome_tab_index
    /\ discovered' = r.discovered

\* discover_plugins: a temporary instance of every plugin class is built;
\* its compliance check writes a missing config.json.
discover_plugins(S) ==
    [S EXCEPT !.cfgFile = [n \in Names |-> ComplianceFile(S.cfgFile[n])],
              !.discovered = [n \in Names |-> PluginInfo(S.cfgFile[n])]]

\* load_plugin without its "already loaded" early return.
load_plugin_always(S, n) ==
    LET built == [S EXCEPT !.cfgFile[n] = ComplianceFile(S.cfgFile[n])]
        id == S.created[n] + 1
    IN  IF CtorRaises(n)
            THEN [st |-> built, ok |-> FALSE, emits |-> {"plugin_error"}]
            ELSE [st |-> [built EXCEPT
                             !.created[n] = id,
                             !.plugins[n] = id,
                             !.initialized = @ \cup {<<n, id>>},
                             !.has_widget[n] = FALSE,
                             !.plugin_buttons = @ \cup {n},
                             !.signal_connected = TRUE],
                  ok |-> TRUE, emits |-> {"plugin_loaded"}]

\* load_plugin: result.st is the state afterwards, result.ok the return
\* value, result.emits the signals emitted.
load_plugin(S, n) ==
    IF S.plugins[n] # 0
        THEN [st |-> S, ok |-> TRUE, emits |-> {}]
    ELSE LET built == [S EXCEPT !.cfgFile[n] = ComplianceFile(S.cfgFile[n])]
         IN  IF CtorRaises(n)
                 THEN [st |-> built, ok |-> FALSE, emits |-> {"plugin_error"}]
             ELSE LET id == S.created[n] + 1
                  IN  [st |-> [built EXCEPT
                                  !.created[n] = id,
                                  !.plugins[n] = id,
                                  \* plugin_instance.initialize(), whose
                                  \* return value is not looked at
                                  !.initialized = @ \cup {<<n, id>>},
                                  !.has_widget[n] = FALSE,
                                  !.plugin_buttons = @ \cup {n},
                                  !.signal_connected = TRUE],
                       ok |-> TRUE, emits |-> {"plugin_loaded"}]

\* PluginBase.cleanup (when the plugin's cleanup reaches it): close the
\* panel and forget it.  The page stays in the tab widget, hidden.
plugin_cleanup(S, n) ==
    IF CleanupClosesWidget(n) /\ S.has_widget[n]
        THEN [S EXCEPT !.closedW = @ \cup {<<n, S.plugins[n]>>},
                       !.has_widget[n] = FALSE]
        ELSE S

\* unload_plugin
unload_plugin(S, n) ==
    IF S.plugins[n] = 0
        THEN [st |-> S, ok |-> TRUE, emits |-> {}]
    ELSE LET cleaned == plugin_cleanup(S, n)
         IN  [st |-> [cleaned EXCEPT !.plugins[n] = 0,
                                     !.has_widget[n] = FALSE,
                                     !.initialized = @ \ {<<n, S.plugins[n]>>}],
              ok |-> TRUE, emits |-> {"plugin_unloaded"}]

\* enable_plugin; the application answers plugin_enabled with
\* _sync_plugin_button_states, which runs discover_plugins.
enable_plugin(S, n) ==
    IF n \notin S.enabled_plugins
        THEN LET listed == [S EXCEPT !.enabled_plugins = @ \cup {n}]
                 r == load_plugin(listed, n)
             IN  IF r.ok
                     THEN [st |-> discover_plugins(r.st), ok |-> TRUE,
                           emits |-> r.emits \cup {"plugin_enabled"}]
                     ELSE r
        ELSE [st |-> S, ok |-> TRUE, emits |-> {}]

\* disable_plugin
disable_plugin(S, n) ==
    IF n \in S.enabled_plugins
        THEN LET unlisted == [S EXCEPT !.enabled_plugins = @ \ {n}]
                 r == unload_plugin(unlisted, n)
             IN  IF r.ok
                     THEN [st |-> discover_plugins(r.st), ok |-> TRUE,
                           emits |-> r.emits \cup {"plugin_disabled"}]
                     ELSE r
        ELSE [st |-> S, ok |-> TRUE, emits |-> {}]

\* The plugins load_plugins picks: those whose info says enabled.
EnabledByDiscovery(S) == {n \in Names : Truthy(S.discovered[n].enabled)}

RECURSIVE LoadAll(_, _)
\* for plugin_name in enabled_plugins: self.load_plugin(plugin_name)
LoadAll(S, todo) ==
    IF todo = {} THEN S
    ELSE LET n == CHOOSE x \in todo : TRUE
         IN  LoadAll(load_plugin(S, n).st, todo \ {n})

\* load_plugins
load_plugins(S) ==
    LET found == discover_plugins(S)
    IN  LoadAll(found, EnabledByDiscovery(found))

\* The config.json files found at start-up: at most one of them differs from
\* a generated file.
InitialConfigs ==
    {f \in [Names -> CfgValues] :
        /\ Cardinality({n \in Names : f[n] # GeneratedConfig}) <= 1
        /\ \A n \in Names : CtorRaises(n) => f[n] = GeneratedConfig}

\* Number of plugin instances constructed so far.
CreatedTotal ==
    created["demo_plugin"] + created["support_web_toolkit"]
        + created["little_capturer"]

PluginsInit ==
    /\ pm_ready = FALSE
    /\ cfgFile \in InitialConfigs
    /\ plugins = [n \in Names |-> 0]
    /\ created = [n \in Names |-> 0]
    /\ initialized = {}
    /\ has_widget = [n \in Names |-> FALSE]
    /\ enabled_plugins = {}
    /\ plugin_buttons = {}
    /\ signal_connected = FALSE
    /\ tabs = <<Welcome>>
    /\ current = 1
    /\ plugin_widgets = [n \in Names |-> NoWidget]
    /\ closedW = {}
    /\ welcome_tab_index = 1
    /\ discovered = [n \in Names |-> NoReport]
    /\ autoLoaded = {}
    /\ lastOp = NoOp

PluginsIdle ==
    /\ pm_ready = FALSE
    /\ cfgFile = [n \in Names |-> NoFile]
    /\ plugins = [n \in Names |-> 0]
    /\ created = [n \in Names |-> 0]
    /\ initialized = {}
    /\ has_widget = [n \in Names |-> FALSE]
    /\ enabled_plugins = {}
    /\ plugin_buttons = {}
    /\ signal_connected = FALSE
    /\ tabs = <<Welcome>>
    /\ current = 1
    /\ plugin_widgets = [n \in Names |-> NoWidget]
    /\ closedW = {}
    /\ welcome_tab_index = 1
    /\ discovered = [n \in Names |-> NoReport]
    /\ autoLoaded = {}
    /\ lastOp = NoOp

\* LittleWorkerApp._init_plugin_manager: PluginManager(self), load_plugins(),
\* _sync_plugin_button_states().
InitPluginManager ==
    /\ ~pm_ready
    /\ pm_ready' = TRUE
    /\ LET r == load_plugins(PS)
       IN  /\ SetPS(discover_plugins(r))
           /\ lastOp' = [op |-> "load_plugins", name |-> "none", result |-> TRUE,
                         was_loaded |-> FALSE, load_emits |-> {},
                         initialize |-> "not called"]
           /\ autoLoaded' = {n \in Names : r.plugins[n] # 0}
    /\ UNCHANGED nonPluginVars

\* What the plugin's initialize() returns to a load_plugin call: True, or
\* False when its try block raised (init_ok is false); "not called" when
\* load_plugin returns before the call.
initialize(S, n, init_ok) ==
    IF S.plugins[n] # 0 \/ CtorRaises(n) THEN "not called"
    ELSE IF init_ok THEN "True" ELSE "False"

\* The plugin manager dialog asks the manager to load a plugin, whose
\* initialize() succeeds or fails.
LoadPlugin(n, init_ok) ==
    /\ pm_ready
    /\ plugins[n] # 0 \/ CreatedTotal < MaxLoads
    /\ LET r == load_plugin(PS, n)
       IN  /\ SetPS(r.st)
           /\ lastOp' = [op |-> "load_plugin", name |-> n, result |-> r.ok,
                         was_loaded |-> plugins[n] # 0, load_emits |-> r.emits,
                         initialize |-> initialize(PS, n, init_ok)]
    /\ UNCHANGED <<pm_ready, autoLoaded>>
    /\ UNCHANGED nonPluginVars

\* The plugin manager dialog asks the manager to unload a plugin.
UnloadPlugin(n) ==
    /\ pm_ready
    /\ LET r == unload_plugin(PS, n)
       IN  /\ SetPS(r.st)
           /\ lastOp' = [op |-> "unload_plugin", name |-> n, result |-> r.ok,
                         was_loaded |-> plugins[n] # 0, load_emits |-> {},
                         initialize |-> "not called"]
    /\ UNCHANGED <<pm_ready, autoLoaded>>
    /\ UNCHANGED nonPluginVars

\* The enable check box of the plugin manager dialog is ticked.
EnablePlugin(n) ==
    /\ pm_ready
    /\ plugins[n] # 0 \/ CreatedTotal < MaxLoads
    /\ LET r == enable_plugin(PS, n)
       IN  /\ SetPS(r.st)
           /\ lastOp' = [op |-> "enable_plugin", name |-> n, result |-> r.ok,
                         was_loaded |-> plugins[n] # 0, load_emits |-> {},
                         initialize |-> "not called"]
    /\ UNCHANGED <<pm_ready, autoLoaded>>
    /\ UNCHANGED nonPluginVars

\* The enable check box of the plugin manager dialog is cleared.
DisablePlugin(n) ==
    /\ pm_ready
    /\ LET r == disable_plugin(PS, n)
       IN  /\ SetPS(r.st)
           /\ lastOp' = [op |-> "disable_plugin", name |-> n, result |-> r.ok,
                         was_loaded |-> plugins[n] # 0, load_emits |-> {},
                         initialize |-> "not called"]
    /\ UNCHANGED <<pm_ready, autoLoaded>>
    /\ UNCHANGED nonPluginVars

\* Index of the first tab whose text is the plugin's display name, 0 if none.
TabOf(S, n) ==
    IF \E i \in 1..Len(S.tabs) : S.tabs[i][1] = n
        THEN CHOOSE i \in 1..Len(S.tabs) :
                /\ S.tabs[i][1] = n
                /\ \A j \in 1..(i - 1) : S.tabs[j][1] # n
        ELSE 0

\* add_plugin_widget
add_plugin_widget(S, n, w) ==
    [S EXCEPT !.plugin_widgets[n] = w,
              !.tabs = Append(@, w),
              !.current = Len(S.tabs) + 1]

\* _handle_plugin_widget_request: get_widget() creates the panel on demand.
handle_plugin_widget_request(S, n) ==
    IF S.plugins[n] = 0 THEN S
    ELSE add_plugin_widget([S EXCEPT !.has_widget[n] = TRUE], n, <<n, S.plugins[n]>>)

\* _open_plugin: select the tab with the plugin's display name, else emit
\* plugin_widget_requested.
open_plugin(S, n) ==
    IF TabOf(S, n) # 0 THEN [S EXCEPT !.current = TabOf(S, n)]
    ELSE IF S.signal_connected THEN handle_plugin_widget_request(S, n)
    ELSE S

\* The user clicks a plugin button of the main window.
OpenPlugin(n) ==
    /\ pm_ready
    /\ n \in plugin_buttons
    /\ SetPS(open_plugin(PS, n))
    /\ lastOp' = [NoOp EXCEPT !.op = "open_plugin"]
    /\ UNCHANGED <<pm_ready, autoLoaded>>
    /\ UNCHANGED nonPluginVars

\* QTabWidget.removeTab(i): the pages and the selected index afterwards.
RemoveAt(seq, i) == SubSeq(seq, 1, i - 1) \o SubSeq(seq, i + 1, Len(seq))

CurrentAfterRemove(S, i) ==
    IF Len(S.tabs) = 1 THEN 0
    ELSE IF S.current > i THEN S.current - 1
    ELSE IF S.current = i /\ i = Len(S.tabs) THEN i - 1
    ELSE S.current

\* _close_plugin_tab: after removeTab(index), the bookkeeping entry that is
\* dropped is the one whose panel is tab_widget.widget(index), read after
\* the removal.
close_plugin_tab(S, i) ==
    LET rest == RemoveAt(S.tabs, i)
        at == IF i <= Len(rest) THEN rest[i] ELSE NoWidget
        hit == {n \in Names : S.plugin_widgets[n] = at /\ at # NoWidget}
    IN  [S EXCEPT !.tabs = rest,
                  !.current = CurrentAfterRemove(S, i),
                  !.plugin_widgets = [n \in Names |->
                        IF n \in hit THEN NoWidget ELSE S.plugin_widgets[n]]]

\* The user clicks the close button of a tab.
ClosePluginTab(i) ==
    /\ pm_ready
    /\ i \in 1..Len(tabs)
    /\ SetPS(close_plugin_tab(PS, i))
    /\ lastOp' = [NoOp EXCEPT !.op = "close_tab"]
    /\ UNCHANGED <<pm_ready, autoLoaded>>
    /\ UNCHANGED nonPluginVars

\* show_welcome_tab: when welcome_tab_index is a valid index the tab at that
\* index is selected, otherwise a welcome tab is created and selected.
show_welcome_tab(S) ==
    IF S.welcome_tab_index \in 1..Len(S.tabs)
        THEN [S EXCEPT !.current = S.welcome_tab_index]
        ELSE [S EXCEPT !.tabs = Append(@, Welcome),
                       !.welcome_tab_index = Len(S.tabs) + 1,
                       !.current = Len(S.tabs) + 1]

\* The user picks the welcome entry of the menu (_show_welcome).
ShowWelcomeTab ==
    /\ pm_ready
    /\ SetPS(show_welcome_tab(PS))
    /\ lastOp' = [NoOp EXCEPT
                     !.op = "show_welcome_tab",
                     !.name = IF \E i \in 1..Len(tabs) : tabs[i] = Welcome
                                 THEN "welcome_open" ELSE "welcome_closed"]
    /\ UNCHANGED <<pm_ready, autoLoaded>>
    /\ UNCHANGED nonPluginVars

PluginsNext ==
    \/ InitPluginManager
    \/ \E n \in Names : LoadPlugin(n, TRUE)
    \/ \E n \in Names : UnloadPlugin(n)
    \/ \E n \in Names : EnablePlugin(n)
    \/ \E n \in Names : DisablePlugin(n)
    \/ \E n \in Names : OpenPlugin(n)

\* The main window's tabs on their own: start-up, opening and closing tabs.
TabsNext ==
    \/ InitPluginManager
    \/ \E n \in Names : OpenPlugin(n)
    \/ \E i \in 1..(Cardinality(Names) + 1) : ClosePluginTab(i)
    \/ ShowWelcomeTab

(***************************************************************************)
(* Period Variance Report: src/plugins/period_variance_report/__init__.py  *)
(***************************************************************************)

\* Most report workers started in one run of the model.
MaxRuns == 2

\* Most Generate requests rejected in one run of the model.
MaxRejects == 2

Workers == 1..MaxRuns

\* The positions of a worker: not started, the steps of
\* _generate_report_process (each of them logs through _append_log), ended.
WorkerSteps == <<"start", "load", "filter", "process", "save", "ended">>

PvrInit ==
    /\ pvr_csv = "none"
    /\ pvr_thread = 0
    /\ pvr_wpc = [w \in Workers |-> "idle"]
    /\ pvr_started = 0
    /\ pvr_finished = {}
    /\ pvr_button = FALSE
    /\ pvr_progress = FALSE
    /\ pvr_rejected = 0
    /\ gui_writes = {}
    /\ pvr_aborted = FALSE

PvrIdle == PvrInit

\* A variant of the isRunning() test that never finds a worker running.
WorkerIsRunning_never == FALSE

\* QThread.isRunning() of the referenced worker
WorkerIsRunning ==
    /\ pvr_thread # 0
    /\ pvr_wpc[pvr_thread] \notin {"idle", "ended"}

\* _append_log called on thread t: log_viewer.append and the scroll bar.
append_log(writes, t) == writes \cup {<<"log_viewer", t>>}

\* _update_generate_button_state on the GUI thread: the path it keeps, the
\* button state it sets.
ButtonStateCsv(csv) == IF csv = "gone" THEN "none" ELSE csv

ButtonStateWrites(writes) ==
    append_log(writes \cup {<<"generate_button", "gui">>}, "gui")

\* _browse_csv_file: the dialog returns an existing file or is cancelled.
BrowseCsvFile(chosen) ==
    /\ ~pvr_aborted
    /\ UNCHANGED pvr_aborted
    /\ LET path == IF chosen THEN "valid" ELSE pvr_csv
       IN  /\ pvr_csv' = ButtonStateCsv(path)
           /\ pvr_button' = (path = "valid")
    /\ gui_writes' = ButtonStateWrites(gui_writes)
    /\ UNCHANGED <<pvr_thread, pvr_wpc, pvr_started, pvr_finished,
                   pvr_progress, pvr_rejected>>
    /\ UNCHANGED nonPvrVars

\* The selected file is deleted outside the application.
CsvFileRemoved ==
    /\ ~pvr_aborted
    /\ UNCHANGED pvr_aborted
    /\ pvr_csv = "valid"
    /\ pvr_csv' = "gone"
    /\ UNCHANGED <<pvr_thread, pvr_wpc, pvr_started, pvr_finished, pvr_button,
                   pvr_progress, pvr_rejected, gui_writes>>
    /\ UNCHANGED nonPvrVars

\* _on_generate_report: the Generate button is clicked.
OnGenerateReport ==
    /\ ~pvr_aborted
    /\ UNCHANGED pvr_aborted
    /\ pvr_button
    /\ IF pvr_csv # "valid"
          THEN /\ gui_writes' = append_log(gui_writes, "gui")
               /\ UNCHANGED <<pvr_thread, pvr_wpc, pvr_started, pvr_button,
                              pvr_progress, pvr_rejected>>
       ELSE IF WorkerIsRunning
          THEN /\ pvr_rejected < MaxRejects
               /\ pvr_rejected' = pvr_rejected + 1
               /\ gui_writes' = append_log(gui_writes, "gui")
               /\ UNCHANGED <<pvr_thread, pvr_wpc, pvr_started, pvr_button,
                              pvr_progress>>
       ELSE /\ pvr_started < MaxRuns
            /\ pvr_started' = pvr_started + 1
            /\ pvr_thread' = pvr_started + 1
            /\ pvr_wpc' = [pvr_wpc EXCEPT ![pvr_started + 1] = "start"]
            /\ pvr_button' = FALSE
            /\ pvr_progress' = TRUE
            /\ gui_writes' = append_log(gui_writes \cup
                                {<<"generate_button", "gui">>,
                                 <<"progress_bar", "gui">>}, "gui")
            /\ UNCHANGED pvr_rejected
    /\ UNCHANGED <<pvr_csv, pvr_finished>>
    /\ UNCHANGED nonPvrVars

NextStep(step) ==
    LET i == CHOOSE k \in 1..Len(WorkerSteps) : WorkerSteps[k] = step
    IN  WorkerSteps[i + 1]

\* One step of ReportGenerationThread.run on the worker thread: the step of
\* _generate_report_process reports through self._append_log, which appends
\* to the log viewer; a failing step logs the failure and ends the run.
WorkerStep(w) ==
    /\ ~pvr_aborted
    /\ UNCHANGED pvr_aborted
    /\ pvr_wpc[w] \notin {"idle", "ended", "save"}
    /\ \E fails \in BOOLEAN :
          pvr_wpc' = [pvr_wpc EXCEPT ![w] =
                         IF fails /\ pvr_wpc[w] = "load" THEN "save"
                                                        ELSE NextStep(pvr_wpc[w])]
    /\ gui_writes' = append_log(gui_writes, "worker")
    /\ UNCHANGED <<pvr_csv, pvr_thread, pvr_started, pvr_finished, pvr_button,
                   pvr_progress, pvr_rejected>>
    /\ UNCHANGED nonPvrVars

\* run() returns: the last log line is written and QThread emits finished,
\* which reaches the plugin as a queued call on the GUI thread.
WorkerReturns(w) ==
    /\ ~pvr_aborted
    /\ UNCHANGED pvr_aborted
    /\ pvr_wpc[w] = "save"
    /\ pvr_wpc' = [pvr_wpc EXCEPT ![w] = "ended"]
    /\ gui_writes' = append_log(gui_writes, "worker")
    /\ pvr_finished' = pvr_finished \cup {w}
    /\ UNCHANGED <<pvr_csv, pvr_thread, pvr_started, pvr_button, pvr_progress,
                   pvr_rejected>>
    /\ UNCHANGED nonPvrVars

\* QThread.isRunning() of worker w
Active(w) == pvr_wpc[w] \notin {"idle", "ended"}

\* _on_generation_finished, run by the queued finished signal of worker w.
\* The worker it finds in self.worker_thread need not be w: if that one is
\* still running it is cancelled and waited for, for three seconds, and then
\* handed to deleteLater.  Either its run ends within the wait (run does not
\* look at the cancel flag before its end), or a running QThread is
\* destroyed, which aborts the process.
OnGenerationFinished(w) ==
    /\ ~pvr_aborted
    /\ w \in pvr_finished
    /\ pvr_finished' = pvr_finished \ {w}
    /\ pvr_csv' = ButtonStateCsv(pvr_csv)
    /\ pvr_button' = (pvr_csv = "valid")
    /\ pvr_progress' = FALSE
    /\ pvr_thread' = 0
    /\ IF WorkerIsRunning
          THEN \/ /\ pvr_wpc' = [pvr_wpc EXCEPT ![pvr_thread] = "ended"]
                  /\ gui_writes' = append_log(ButtonStateWrites(
                         gui_writes \cup {<<"progress_bar", "gui">>}), "worker")
                  /\ pvr_aborted' = FALSE
               \/ /\ pvr_aborted' = TRUE
                  /\ gui_writes' = ButtonStateWrites(
                         gui_writes \cup {<<"progress_bar", "gui">>})
                  /\ UNCHANGED pvr_wpc
          ELSE /\ gui_writes' = ButtonStateWrites(
                      gui_writes \cup {<<"progress_bar", "gui">>})
               /\ UNCHANGED <<pvr_wpc, pvr_aborted>>
    /\ UNCHANGED <<pvr_started, pvr_rejected>>
    /\ UNCHANGED nonPvrVars

PvrNext ==
    \/ \E chosen \in BOOLEAN : BrowseCsvFile(chosen)
    \/ CsvFileRemoved
    \/ OnGenerateReport
    \/ \E w \in Workers : WorkerStep(w)
    \/ \E w \in Workers : WorkerReturns(w)
    \/ \E w \in Workers : OnGenerationFinished(w)

(***************************************************************************)
(* Little Capturer: src/plugins/little_capturer/__init__.py and            *)
(* src/plugins/little_capturer/utils/hotkey_manager.py                     *)
(***************************************************************************)

\* Most hotkey triggers in one run of the model.
MaxTriggers == 2

\* A hotkey string is modelled by its parts, the pieces between the '+'
\* signs, exactly as written by the user.
HotkeyInputs ==
    { <<"Alt", "Shift", "Z">>, <<"alt", " shift", "z">>, <<"Shift", "Alt", "Z">>,
      <<"Control", "Q">>, <<"Z">>, <<"Alt", "Print">>, <<"">> }

\* part.strip().lower()
StripLower(part) ==
    CASE part = "Alt" -> "alt"
      [] part = "Shift" -> "shift"
      [] part = " shift" -> "shift"
      [] part = "Control" -> "control"
      [] part = "Z" -> "z"
      [] part = "Q" -> "q"
      [] part = "Print" -> "print"
      [] part = "W" -> "w"
      [] OTHER -> part

modifier_map ==
    [p \in {"ctrl", "control", "alt", "shift", "win", "cmd", "super"} |->
        CASE p \in {"ctrl", "control"} -> "<ctrl>"
          [] p = "alt" -> "<alt>"
          [] p = "shift" -> "<shift>"
          [] OTHER -> "<cmd>"]

\* single letters and digits among the parts used here
SingleAlnum == {"z", "q", "w"}

\* The failure value of _normalize_hotkey (None).
Invalid == <<>>

\* _normalize_hotkey: the normalized parts, Invalid for None.  No part used
\* here is a key of special_key_map.
normalize_hotkey(hotkey) ==
    LET parts == [i \in 1..Len(hotkey) |-> StripLower(hotkey[i])]
        known(p) == p \in DOMAIN modifier_map \/ p \in SingleAlnum
    IN  IF hotkey = <<"">> THEN Invalid
        ELSE IF Len(parts) < 2 THEN Invalid
        ELSE IF \E i \in 1..Len(parts) : ~known(parts[i]) THEN Invalid
        ELSE [i \in 1..Len(parts) |->
                 IF parts[i] \in DOMAIN modifier_map THEN modifier_map[parts[i]]
                                                     ELSE parts[i]]

\* The normalized forms of the inputs.
NormalizedHotkeys == {normalize_hotkey(h) : h \in HotkeyInputs} \ {Invalid}

\* The default of get_setting('keyboard_shortcut', ...) in initialize.
DefaultShortcut == <<"Alt", "Shift", "Z">>

\* The receivers connected to GlobalHotkeyManager.hotkey_triggered: the
\* sources connect none.
HotkeyTriggeredReceivers == {}

HS == [state |-> lc_state, setting |-> lc_setting, running |-> hk_running,
       hotkeys |-> hk_hotkeys, listener |-> hk_listener,
       pending |-> hk_pending, triggers |-> hk_triggers,
       runs |-> capture_runs, overlay |-> overlay,
       lastRegister |-> hk_lastRegister]

SetHS(r) ==
    /\ lc_state' = r.state
    /\ lc_setting' = r.setting
    /\ hk_running' = r.running
    /\ hk_hotkeys' = r.hotkeys
    /\ hk_listener' = r.listener
    /\ hk_pending' = r.pending
    /\ hk_triggers' = r.triggers
    /\ capture_runs' = r.runs
    /\ overlay' = r.overlay
    /\ hk_lastRegister' = r.lastRegister

NoHotkeys == [h \in {} |-> "none"]

\* _create_listener: a listener for the registered hotkeys, none if empty.
create_listener(S) ==
    IF DOMAIN S.hotkeys = {} THEN S
    ELSE [S EXCEPT !.listener = {DOMAIN S.hotkeys}]

\* _recreate_listener
recreate_listener(S) == create_listener([S EXCEPT !.listener = {}])

\* GlobalHotkeyManager.start
hk_start(S) ==
    IF S.running THEN S
    ELSE [create_listener(S) EXCEPT !.running = TRUE]

\* GlobalHotkeyManager.stop
hk_stop(S) ==
    IF ~S.running THEN S
    ELSE [S EXCEPT !.running = FALSE, !.listener = {}]

\* The keys of a normalized hotkey: pynput's HotKey holds them as a set and
\* fires when exactly these keys are down, whatever the order they were
\* written in.
KeySet(n) == {n[i] : i \in 1..Len(n)}

NoRegister == [met |-> "none", ok |-> FALSE, unchanged |-> TRUE]

\* What a register_hotkey(hotkey) call meets in S: a string that does not
\* parse, a combination that is registered already, or a new combination.
Meets(S, hotkey) ==
    LET n == normalize_hotkey(hotkey)
    IN  IF n = Invalid THEN "unparsable"
        ELSE IF \E k \in DOMAIN S.hotkeys : KeySet(k) = KeySet(n)
            THEN "registered"
        ELSE "new"

\* register_hotkey: the new state and the returned value.
register_hotkey(S, hotkey, callback) ==
    LET n == normalize_hotkey(hotkey)
    IN  IF n = Invalid THEN [st |-> S, ok |-> FALSE]
        ELSE IF n \in DOMAIN S.hotkeys THEN [st |-> S, ok |-> FALSE]
        ELSE LET S1 == [S EXCEPT !.hotkeys =
                          [h \in DOMAIN S.hotkeys \cup {n} |->
                              IF h = n THEN callback ELSE S.hotkeys[h]]]
             IN  [st |-> IF S1.running THEN recreate_listener(S1) ELSE S1,
                  ok |-> TRUE]

\* unregister_hotkey: the new state and the returned value.
unregister_hotkey(S, hotkey) ==
    LET n == normalize_hotkey(hotkey)
    IN  IF n = Invalid THEN [st |-> S, ok |-> FALSE]
        ELSE IF n \notin DOMAIN S.hotkeys THEN [st |-> S, ok |-> FALSE]
        ELSE LET S1 == [S EXCEPT !.hotkeys =
                          [h \in DOMAIN S.hotkeys \ {n} |-> S.hotkeys[h]]]
             IN  [st |-> IF S1.running THEN recreate_listener(S1) ELSE S1,
                  ok |-> TRUE]

\* LittleCapturer._start_capture run for cause on thread: the capture window
\* exists while the plugin is initialized.
start_capture(S, cause, thread) ==
    [S EXCEPT !.runs = @ \cup {<<cause, thread>>},
              !.overlay = IF S.state = "initialized" THEN TRUE ELSE @]

\* A variant of _on_hotkey_triggered that calls the callback itself.
on_hotkey_triggered_direct(S, callback) ==
    start_capture([S EXCEPT !.triggers = @ + 1], "hotkey", "hook")

\* GlobalHotkeyManager._on_hotkey_triggered, on the hook thread: the callback
\* is stored and hotkey_triggered is emitted, which queues one call per
\* connected receiver; there is none.
on_hotkey_triggered(S, callback) ==
    [S EXCEPT !.triggers = @ + 1, !.pending = {callback}]

HotkeyInit ==
    /\ lc_state = "none"
    /\ lc_setting \in {{}} \cup {{h} : h \in HotkeyInputs}
    /\ hk_running = FALSE
    /\ hk_hotkeys = NoHotkeys
    /\ hk_listener = {}
    /\ hk_pending = {}
    /\ hk_triggers = 0
    /\ capture_runs = {}
    /\ overlay = FALSE
    /\ hk_lastRegister = NoRegister

HotkeyIdle ==
    /\ HotkeyInit
    /\ lc_setting = {}

\* Plugin.initialize: a new manager is created and started, the configured
\* combination is registered.
LCInitialize ==
    /\ lc_state # "initialized"
    /\ LET hotkey == IF lc_setting = {} THEN DefaultShortcut
                     ELSE CHOOSE h \in lc_setting : TRUE
           S0 == [HS EXCEPT !.state = "initialized", !.running = FALSE,
                            !.hotkeys = NoHotkeys, !.listener = {},
                            !.pending = {}]
       IN  SetHS(register_hotkey(hk_start(S0), hotkey, "_on_hotkey_triggered").st)
    /\ UNCHANGED nonHotkeyVars

\* Plugin.cleanup: the manager is stopped and cleared, the overlay hidden.
LCCleanup ==
    /\ lc_state = "initialized"
    /\ SetHS([hk_stop(HS) EXCEPT !.state = "cleaned", !.hotkeys = NoHotkeys,
                                 !.overlay = FALSE])
    /\ UNCHANGED nonHotkeyVars

RegisterHotkey(hotkey) ==
    /\ lc_state = "initialized"
    /\ LET r == register_hotkey(HS, hotkey, "_on_hotkey_triggered")
       IN  SetHS([r.st EXCEPT !.lastRegister =
                     [met |-> Meets(HS, hotkey),
                      ok |-> r.ok,
                      unchanged |-> /\ r.st.hotkeys = hk_hotkeys
                                    /\ r.st.listener = hk_listener
                                    /\ r.st.running = hk_running]])
    /\ UNCHANGED nonHotkeyVars

UnregisterHotkey(hotkey) ==
    /\ lc_state = "initialized"
    /\ SetHS(unregister_hotkey(HS, hotkey).st)
    /\ UNCHANGED nonHotkeyVars

HotkeyStart ==
    /\ lc_state = "initialized"
    /\ ~hk_running
    /\ SetHS(hk_start(HS))
    /\ UNCHANGED nonHotkeyVars

HotkeyStop ==
    /\ lc_state = "initialized"
    /\ hk_running
    /\ SetHS(hk_stop(HS))
    /\ UNCHANGED nonHotkeyVars

\* The user presses a combination the listener listens for: the hook thread
\* runs the function made by _create_hotkey_callback.
HotkeyPressed(h) ==
    /\ h \in UNION hk_listener
    /\ hk_triggers < MaxTriggers
    /\ SetHS(on_hotkey_triggered(HS, hk_hotkeys[h]))
    /\ UNCHANGED nonHotkeyVars

\* The capture button of the panel is clicked (GUI thread).
CaptureButtonClick ==
    /\ lc_state = "initialized"
    /\ ~overlay
    /\ SetHS(start_capture(HS, "button", "gui"))
    /\ UNCHANGED nonHotkeyVars

\* The overlay is dismissed: an area was selected or the capture cancelled.
OverlayDone ==
    /\ overlay
    /\ SetHS([HS EXCEPT !.overlay = FALSE])
    /\ UNCHANGED nonHotkeyVars

HotkeyNext ==
    \/ LCInitialize
    \/ LCCleanup
    \/ \E h \in HotkeyInputs : RegisterHotkey(h)
    \/ \E h \in HotkeyInputs : UnregisterHotkey(h)
    \/ HotkeyStart
    \/ HotkeyStop
    \/ \E h \in NormalizedHotkeys : HotkeyPressed(h)
    \/ CaptureButtonClick
    \/ OverlayDone

(***************************************************************************)
(* Support Web Toolkit: src/plugins/support_web_toolkit/__init__.py        *)
(***************************************************************************)

\* Most server threads started in one run of the model.
MaxServerStarts == 2

ServerThreads == 1..MaxServerStarts

Tools == {"/JSON_Formatter"}

NoStop == [before |-> "none", after |-> "none", killed |-> FALSE]

SS == [status |-> srv_status, url |-> srv_url, thread |-> srv_thread,
       tpc |-> srv_tpc, should_stop |-> srv_should_stop, ref |-> srv_ref,
       child |-> srv_child, queue |-> srv_queue,
       start_enabled |-> srv_start_enabled, stop_enabled |-> srv_stop_enabled,
       pending |-> srv_pending, timer |-> srv_timer,
       wait_timer |-> srv_wait_timer, open_timer |-> srv_open_timer,
       opened |-> srv_opened, started |-> srv_started]

SetSS(r) ==
    /\ srv_status' = r.status
    /\ srv_url' = r.url
    /\ srv_thread' = r.thread
    /\ srv_tpc' = r.tpc
    /\ srv_should_stop' = r.should_stop
    /\ srv_ref' = r.ref
    /\ srv_child' = r.child
    /\ srv_queue' = r.queue
    /\ srv_start_enabled' = r.start_enabled
    /\ srv_stop_enabled' = r.stop_enabled
    /\ srv_pending' = r.pending
    /\ srv_timer' = r.timer
    /\ srv_wait_timer' = r.wait_timer
    /\ srv_open_timer' = r.open_timer
    /\ srv_opened' = r.opened
    /\ srv_started' = r.started

\* The state after __init__ and create_widget.
ServerInit ==
    /\ srv_status = "stopped"
    /\ srv_url = FALSE
    /\ srv_thread = 0
    /\ srv_tpc = [t \in ServerThreads |-> "idle"]
    /\ srv_should_stop = [t \in ServerThreads |-> FALSE]
    /\ srv_ref = [t \in ServerThreads |-> FALSE]
    /\ srv_child = [t \in ServerThreads |-> "none"]
    /\ srv_queue = <<>>
    /\ srv_start_enabled = TRUE
    /\ srv_stop_enabled = FALSE
    /\ srv_pending = "none"
    /\ srv_timer = FALSE
    /\ srv_wait_timer = FALSE
    /\ srv_open_timer = "none"
    /\ srv_opened = {}
    /\ srv_started = 0
    /\ srv_lastStop = NoStop
    /\ srv_wantTool = "none"
    /\ srv_stopDone = FALSE

ServerIdle == ServerInit

\* A variant of _update_status_ui that leaves the stop button usable while
\* the server is starting.
update_status_ui_stop_while_starting(S) ==
    [S EXCEPT !.start_enabled = (S.status = "stopped"),
              !.stop_enabled = (S.status \in {"running", "starting"})]

\* _update_status_ui: the two buttons follow the status.
update_status_ui(S) ==
    [S EXCEPT !.start_enabled = (S.status = "stopped"),
              !.stop_enabled = (S.status = "running")]

\* _on_server_stopped
on_server_stopped(S) ==
    [update_status_ui([S EXCEPT !.status = "stopped", !.url = FALSE,
                                !.pending = "none"])
        EXCEPT !.timer = FALSE]

\* A variant of _on_server_error that leaves the status as it is.
on_server_error_keeps_status(S) == update_status_ui(S)

\* _on_server_error
on_server_error(S) ==
    update_status_ui([S EXCEPT !.status = "stopped", !.url = FALSE])

\* _on_server_started
on_server_started(S) ==
    LET S1 == [update_status_ui([S EXCEPT !.status = "running", !.url = TRUE])
                  EXCEPT !.timer = TRUE]
    IN  IF S1.pending # "none"
           THEN [S1 EXCEPT !.open_timer = S1.pending, !.pending = "none"]
           ELSE S1

\* QThread.isRunning()
ThreadIsRunning(S, t) == S.tpc[t] \in {"launch", "sleep", "monitor"}

\* StreamlitServerThread.stop_server called on the GUI thread: the child is
\* terminated, and server_stopped reaches _on_server_stopped directly.
stop_server(S, t) ==
    on_server_stopped(
        [S EXCEPT !.should_stop[t] = TRUE,
                  !.child[t] = IF S.ref[t] /\ @ = "alive" THEN "dead" ELSE @,
                  !.ref[t] = FALSE])

\* _start_server
start_server(S) ==
    IF S.status \in {"running", "starting", "stopping"} THEN S
    ELSE LET S1 == IF S.thread # 0 /\ ThreadIsRunning(S, S.thread)
                      THEN stop_server(S, S.thread) ELSE S
             n == S.started + 1
         IN  update_status_ui([S1 EXCEPT !.status = "starting", !.thread = n,
                                         !.started = n, !.tpc[n] = "launch"])

\* _stop_server
stop_server_request(S) ==
    IF S.status \in {"stopped", "stopping"} THEN S
    ELSE LET S1 == update_status_ui([S EXCEPT !.status = "stopping"])
         IN  IF S1.thread # 0
                THEN [stop_server(S1, S1.thread) EXCEPT !.wait_timer = TRUE]
                ELSE S1

\* _open_tool
open_tool(S, path) ==
    IF S.status # "running"
       THEN start_server([S EXCEPT !.pending = path])
       ELSE [S EXCEPT !.opened = @ \cup {path}]

\* A call of _start_server starts a thread only while the model has one left.
CanStart(S) ==
    \/ S.status \in {"running", "starting", "stopping"}
    \/ S.started < MaxServerStarts

StartButtonClick ==
    /\ srv_start_enabled
    /\ CanStart(SS)
    /\ SetSS(start_server(SS))
    /\ srv_stopDone' = FALSE
    /\ UNCHANGED <<srv_lastStop, srv_wantTool>>
    /\ UNCHANGED nonServerVars

\* The user clicks the stop button; a disabled button emits no clicked signal.
StopButtonClick ==
    /\ LET S1 == IF srv_stop_enabled THEN stop_server_request(SS) ELSE SS
       IN  /\ SetSS(S1)
           /\ srv_lastStop' = [before |-> srv_status, after |-> S1.status,
                               killed |-> S1.child # srv_child]
           /\ srv_stopDone' = IF srv_stop_enabled /\ S1.status = "stopped"
                                 THEN TRUE ELSE srv_stopDone
    /\ UNCHANGED srv_wantTool
    /\ UNCHANGED nonServerVars

ToolButtonClick(path) ==
    /\ CanStart(SS)
    /\ SetSS(open_tool(SS, path))
    /\ srv_wantTool' = IF srv_status = "stopped" THEN path
                       ELSE IF srv_status = "running" /\ path = srv_wantTool
                               THEN "none" ELSE srv_wantTool
    /\ srv_stopDone' = FALSE
    /\ UNCHANGED srv_lastStop
    /\ UNCHANGED nonServerVars

\* The single shot armed by _on_server_started fires.
OpenToolTimer ==
    /\ srv_open_timer # "none"
    /\ CanStart(SS)
    /\ SetSS(open_tool([SS EXCEPT !.open_timer = "none"], srv_open_timer))
    /\ srv_wantTool' = IF srv_status = "running" /\ srv_open_timer = srv_wantTool
                          THEN "none" ELSE srv_wantTool
    /\ UNCHANGED <<srv_lastStop, srv_stopDone>>
    /\ UNCHANGED nonServerVars

\* _wait_for_thread_finish once the thread has ended; until then it re-arms.
WaitForThreadFinish ==
    /\ srv_wait_timer
    /\ srv_thread = 0 \/ ~ThreadIsRunning(SS, srv_thread)
    /\ SetSS([SS EXCEPT !.wait_timer = FALSE, !.thread = 0])
    /\ UNCHANGED <<srv_lastStop, srv_wantTool, srv_stopDone>>
    /\ UNCHANGED nonServerVars

\* _check_server_status on a timeout of status_timer, with the request
\* failing: no child answers, or a live one answers too late.
CheckServerStatusFails ==
    /\ srv_timer
    /\ srv_status = "running" /\ srv_url
    /\ SetSS(on_server_stopped(SS))
    /\ UNCHANGED <<srv_lastStop, srv_wantTool, srv_stopDone>>
    /\ UNCHANGED nonServerVars

\* The GUI thread delivers the next queued signal of a server thread.
DeliverSignal ==
    /\ srv_queue # <<>>
    /\ LET S1 == [SS EXCEPT !.queue = Tail(@)]
       IN  SetSS(IF Head(srv_queue)[2] = "server_started"
                    THEN on_server_started(S1) ELSE on_server_error(S1))
    /\ UNCHANGED <<srv_lastStop, srv_wantTool, srv_stopDone>>
    /\ UNCHANGED nonServerVars

Emit(S, t, sig) == [S EXCEPT !.queue = Append(@, <<t, sig>>)]

\* run: subprocess.Popen succeeds or raises.
ThreadLaunch(t) ==
    /\ srv_tpc[t] = "launch"
    /\ \E ok \in BOOLEAN :
          SetSS(IF ok
                   THEN [SS EXCEPT !.tpc[t] = "sleep", !.ref[t] = TRUE,
                                   !.child[t] = "alive"]
                   ELSE Emit([SS EXCEPT !.tpc[t] = "done"], t, "server_error"))
    /\ UNCHANGED <<srv_lastStop, srv_wantTool, srv_stopDone>>
    /\ UNCHANGED nonServerVars

\* run reads self.process twice in one condition while stop_server clears it
\* on the GUI thread: the second read may fail, which run reports as an error.
RacedOutcomes(S, t) ==
    IF S.should_stop[t] /\ ~S.ref[t] /\ S.child[t] # "none"
       THEN {S, Emit(S, t, "server_error")} ELSE {S}

\* run after time.sleep(3)
ThreadWake(t) ==
    /\ srv_tpc[t] = "sleep"
    /\ IF ~srv_should_stop[t] /\ srv_ref[t] /\ srv_child[t] = "alive"
          THEN SetSS(Emit([SS EXCEPT !.tpc[t] = "monitor"], t, "server_started"))
       ELSE IF srv_ref[t] /\ srv_child[t] = "dead"
          THEN SetSS(Emit([SS EXCEPT !.tpc[t] = "done"], t, "server_error"))
       ELSE \E S1 \in RacedOutcomes([SS EXCEPT !.tpc[t] = "done"], t) : SetSS(S1)
    /\ UNCHANGED <<srv_lastStop, srv_wantTool, srv_stopDone>>
    /\ UNCHANGED nonServerVars

\* run leaves its monitoring loop.
ThreadMonitorExit(t) ==
    /\ srv_tpc[t] = "monitor"
    /\ srv_should_stop[t] \/ ~srv_ref[t] \/ srv_child[t] # "alive"
    /\ IF srv_ref[t] /\ srv_child[t] = "dead" /\ ~srv_should_stop[t]
          THEN SetSS(Emit([SS EXCEPT !.tpc[t] = "done"], t, "server_error"))
          ELSE \E S1 \in RacedOutcomes([SS EXCEPT !.tpc[t] = "done"], t) : SetSS(S1)
    /\ UNCHANGED <<srv_lastStop, srv_wantTool, srv_stopDone>>
    /\ UNCHANGED nonServerVars

\* The child process exits by itself.
ChildExits(t) ==
    /\ srv_child[t] = "alive"
    /\ SetSS([SS EXCEPT !.child[t] = "dead"])
    /\ UNCHANGED <<srv_lastStop, srv_wantTool, srv_stopDone>>
    /\ UNCHANGED nonServerVars

ServerNext ==
    \/ StartButtonClick
    \/ StopButtonClick
    \/ \E path \in Tools : ToolButtonClick(path)
    \/ OpenToolTimer
    \/ WaitForThreadFinish
    \/ CheckServerStatusFails
    \/ DeliverSignal
    \/ \E t \in ServerThreads : ThreadLaunch(t)
    \/ \E t \in ServerThreads : ThreadWake(t)
    \/ \E t \in ServerThreads : ThreadMonitorExit(t)
    \/ \E t \in ServerThreads : ChildExits(t)

(***************************************************************************)
(* Specifications                                                          *)
(***************************************************************************)

(***************************************************************************)
(* Little capturer: the capture overlay                                    *)
(* src/plugins/little_capturer/utils/screenshot.py, class CaptureWindow    *)
(*                                                                         *)
(* The overlay is a full-screen top-level widget.  Mouse and key events    *)
(* reach it only while it is shown; hiding it ends the mouse grab a press  *)
(* gave it, so the release of a drag that Escape cut short goes elsewhere. *)
(***************************************************************************)

\* The pixel coordinates a mouse event can carry.
Coords == {0, 1, 5, 6}

Points == [x : Coords, y : Coords]

\* QPoint()
Origin == [x |-> 0, y |-> 0]

\* QRect()
NullRect == [x |-> 0, y |-> 0, w |-> 0, h |-> 0]

Min(a, b) == IF a <= b THEN a ELSE b

Abs(a) == IF a < 0 THEN 0 - a ELSE a

\* QRect(min(x), min(y), abs(dx), abs(dy)) of mouseMoveEvent/mouseReleaseEvent
SelectionRect(s, e) ==
    [x |-> Min(s.x, e.x), y |-> Min(s.y, e.y),
     w |-> Abs(e.x - s.x), h |-> Abs(e.y - s.y)]

\* The size a final selection has to exceed.
MinSelection == 5

NoRelease == [seen |-> FALSE, dragged |-> {}, emitted |-> <<>>, visible |-> FALSE]

CaptureWindowInit ==
    [visible |-> FALSE, selecting |-> FALSE, start |-> Origin, end |-> Origin,
     rect |-> NullRect, area_selected |-> <<>>, capture_cancelled |-> FALSE]

show_capture_window(C) ==
    [C EXCEPT !.rect = NullRect, !.start = Origin, !.visible = TRUE,
              !.area_selected = <<>>, !.capture_cancelled = FALSE]

hide_capture_window(C) == [C EXCEPT !.visible = FALSE]

mousePressEvent(C, p) ==
    [C EXCEPT !.selecting = TRUE, !.start = p, !.end = p, !.rect = NullRect]

mouseMoveEvent(C, p) ==
    IF C.selecting
        THEN [C EXCEPT !.end = p, !.rect = SelectionRect(C.start, p)]
        ELSE C

mouseReleaseEvent(C, p) ==
    IF C.selecting
        THEN LET r == SelectionRect(C.start, p)
                 D == [C EXCEPT !.selecting = FALSE, !.end = p, !.rect = r]
             IN  IF r.w > MinSelection /\ r.h > MinSelection
                     THEN hide_capture_window(
                              [D EXCEPT !.area_selected = Append(@, r)])
                     ELSE [D EXCEPT !.rect = NullRect]
        ELSE C

keyPressEvent_stays_open(C) == [C EXCEPT !.capture_cancelled = TRUE]

\* the Escape branch; other keys go to QWidget and change nothing here
keyPressEvent(C) ==
    hide_capture_window([C EXCEPT !.capture_cancelled = TRUE])

CaptureInit ==
    /\ cw = CaptureWindowInit
    /\ mouse_down = FALSE
    /\ drag_from = {}
    /\ cw_escPressed = FALSE
    /\ cw_lastRelease = NoRelease

CaptureIdle == CaptureInit

\* _start_capture: the capture button, which the shown overlay covers
StartCapture ==
    /\ ~cw.visible
    /\ cw' = show_capture_window(cw)
    /\ drag_from' = {}
    /\ cw_escPressed' = FALSE
    /\ cw_lastRelease' = NoRelease
    /\ UNCHANGED mouse_down
    /\ UNCHANGED nonCaptureVars

\* the user presses the left button at p
MousePress(p) ==
    /\ ~mouse_down
    /\ mouse_down' = TRUE
    /\ IF cw.visible
          THEN /\ cw' = mousePressEvent(cw, p)
               /\ drag_from' = {p}
               /\ cw_lastRelease' = NoRelease
          ELSE UNCHANGED <<cw, drag_from, cw_lastRelease>>
    /\ UNCHANGED cw_escPressed
    /\ UNCHANGED nonCaptureVars

\* the pointer moves to p over the shown overlay (mouse tracking is on)
MouseMove(p) ==
    /\ cw.visible
    /\ cw' = mouseMoveEvent(cw, p)
    /\ UNCHANGED <<mouse_down, drag_from, cw_escPressed, cw_lastRelease>>
    /\ UNCHANGED nonCaptureVars

\* the user releases the left button at p
MouseRelease(p) ==
    /\ mouse_down
    /\ mouse_down' = FALSE
    /\ drag_from' = {}
    /\ IF cw.visible
          THEN /\ cw' = mouseReleaseEvent(cw, p)
               /\ cw_lastRelease' =
                      [seen |-> TRUE,
                       dragged |-> {SelectionRect(s, p) : s \in drag_from},
                       emitted |-> SubSeq(cw'.area_selected,
                                          Len(cw.area_selected) + 1,
                                          Len(cw'.area_selected)),
                       visible |-> cw'.visible]
          ELSE UNCHANGED <<cw, cw_lastRelease>>
    /\ UNCHANGED cw_escPressed
    /\ UNCHANGED nonCaptureVars

\* the user presses Escape while the overlay has the keyboard focus
KeyEscape ==
    /\ cw.visible
    /\ cw' = keyPressEvent(cw)
    /\ cw_escPressed' = TRUE
    /\ drag_from' = {}
    /\ UNCHANGED <<mouse_down, cw_lastRelease>>
    /\ UNCHANGED nonCaptureVars

CaptureNext ==
    \/ StartCapture
    \/ \E p \in Points : MousePress(p)
    \/ \E p \in Points : MouseMove(p)
    \/ \E p \in Points : MouseRelease(p)
    \/ KeyEscape

(***************************************************************************)
(* Plugin contract: compliance check and config.json auto-generation       *)
(* src/core/plugin_base.py, src/core/plugin_manager.py (_get_plugin_info)  *)
(*                                                                         *)
(* One plugin package whose module imports and whose class constructs.     *)
(* The class is any subclass of PluginBase: each identity field is either  *)
(* inherited or declared by the subclass.                                  *)
(***************************************************************************)

MaxScans == 2

\* the directory name of the package; get_name() yields it
PackageName == "sample_plugin"

IdentityFields == {"NAME", "DISPLAY_NAME", "DESCRIPTION", "VERSION", "AUTHOR"}

\* required_attrs, in the order the check walks them
RequiredAttrs == <<"NAME", "DISPLAY_NAME", "DESCRIPTION", "VERSION", "AUTHOR">>

\* the class attributes of PluginBase
BaseDefault(a) ==
    CASE a = "NAME"         -> "Unknown Plugin"
      [] a = "DISPLAY_NAME" -> "Unknown Plugin"
      [] a = "DESCRIPTION"  -> "Unknown Plugin Description"
      [] a = "VERSION"      -> "1.0.0"
      [] a = "AUTHOR"       -> "Unknown Author"

\* f"Unknown {attr.replace('_', ' ').title()}"
UnknownTitle(a) ==
    CASE a = "NAME"         -> "Unknown Name"
      [] a = "DISPLAY_NAME" -> "Unknown Display Name"
      [] a = "DESCRIPTION"  -> "Unknown Description"
      [] a = "VERSION"      -> "Unknown Version"
      [] a = "AUTHOR"       -> "Unknown Author"

\* a value of its own that a subclass declares
OwnValue(a) ==
    CASE a = "NAME"         -> "sample_plugin"
      [] a = "DISPLAY_NAME" -> "Sample Plugin"
      [] a = "DESCRIPTION"  -> "A sample"
      [] a = "VERSION"      -> "2.1.0"
      [] a = "AUTHOR"       -> "Tearsyu"

\* What a class can hold for a field: the inherited default, or a declared
\* value (its own, the default's text again, or the "Unknown ..." text).
AttrChoices(a) ==
    {[declared |-> FALSE, value |-> BaseDefault(a)]}
        \cup {[declared |-> TRUE, value |-> v] :
                 v \in {OwnValue(a), BaseDefault(a), UnknownTitle(a)}}

\* required_info_fields, in order, with the class attribute each comes from
InfoFields == <<"name", "display_name", "description", "version", "author">>

NoConfigFile == [present |-> FALSE, plugin_info |-> {}, available_config |-> FALSE,
                 enabled |-> "absent"]

\* a plugin_info object somebody wrote by hand, and one lacking its author
HandInfo ==
    [f \in {"name", "display_name", "description", "version", "author"} |-> "x"]

PartialInfo ==
    [f \in {"name", "display_name", "description", "version"} |-> "x"]

\* The config.json files a scan can meet: none, or a JSON object with or
\* without plugin_info, available_config and its enabled entry.
ConfigFiles ==
    {NoConfigFile}
        \cup [present : {TRUE}, plugin_info : {{}, {HandInfo}, {PartialInfo}},
              available_config : {TRUE}, enabled : EnabledValues]
        \cup [present : {TRUE}, plugin_info : {{}, {HandInfo}},
              available_config : {FALSE}, enabled : {"absent"}]

NoError == [kind |-> "none", attrs |-> {}, text |-> ""]

\* get_name(): the last component of the module name
get_name == PackageName

generate_config_file_without_author(cls) ==
    [present |-> TRUE,
     plugin_info |-> {[f \in {"name", "display_name", "description", "version"} |->
                         CASE f = "name"         -> get_name
                           [] f = "display_name" -> cls["DISPLAY_NAME"].value
                           [] f = "description"  -> cls["DESCRIPTION"].value
                           [] f = "version"      -> cls["VERSION"].value]},
     available_config |-> TRUE,
     enabled |-> "true"]

\* _generate_config_file: the file it writes
generate_config_file(cls) ==
    [present |-> TRUE,
     plugin_info |-> {[f \in {"name", "display_name", "description", "version",
                              "author"} |->
                         CASE f = "name"         -> get_name
                           [] f = "display_name" -> cls["DISPLAY_NAME"].value
                           [] f = "description"  -> cls["DESCRIPTION"].value
                           [] f = "version"      -> cls["VERSION"].value
                           [] f = "author"       -> cls["AUTHOR"].value]},
     available_config |-> TRUE,
     enabled |-> "true"]

\* the first entry of required_info_fields that info lacks, 0 = none
FirstMissing(info) ==
    IF \E i \in 1..Len(InfoFields) : InfoFields[i] \notin DOMAIN info
        THEN CHOOSE i \in 1..Len(InfoFields) :
                 /\ InfoFields[i] \notin DOMAIN info
                 /\ \A j \in 1..(i - 1) : InfoFields[j] \in DOMAIN info
        ELSE 0

\* _validate_config_file: the error_info it records, NoError when it passes
validate_config_file(f) ==
    LET err(t) == [kind |-> "config", attrs |-> {}, text |-> t]
    IN  IF f.plugin_info = {}
            THEN err("config.json missing 'plugin_info' field")
        ELSE IF ~f.available_config
            THEN err("config.json missing 'available_config' field")
        ELSE IF \E info \in f.plugin_info : FirstMissing(info) # 0
            THEN err("config.json missing required field: plugin_info")
        ELSE IF f.enabled = "absent"
            THEN err("config.json missing required field: available_config.enabled")
        ELSE IF ~IsBool(f.enabled)
            THEN err("config.json 'enabled' field must be boolean")
        ELSE NoError

\* missing_attrs of _check_plugin_compliance; hasattr() holds for every
\* field, PluginBase defines them all
missing_attrs(cls) ==
    {RequiredAttrs[i] : i \in {j \in 1..Len(RequiredAttrs) :
        cls[RequiredAttrs[j]].value = UnknownTitle(RequiredAttrs[j])}}

\* _check_plugin_compliance: the file it leaves and the error_info it records
check_plugin_compliance(cls, f) ==
    IF missing_attrs(cls) # {}
        THEN [file |-> f,
              error_info |-> [kind |-> "missing_attrs",
                              attrs |-> missing_attrs(cls),
                              text |-> "Missing required attributes"]]
    ELSE IF ~f.present
        THEN [file |-> generate_config_file(cls), error_info |-> NoError]
    ELSE [file |-> f, error_info |-> validate_config_file(f)]

\* _load_plugin_config: self._enabled
load_plugin_config_enabled(f) ==
    IF f.present /\ f.available_config /\ f.enabled # "absent"
        THEN f.enabled
        ELSE "true"

\* PluginBase.__init__ followed by get_plugin_info()
get_plugin_info(cls, f) ==
    LET c == check_plugin_compliance(cls, f)
    IN  [name         |-> get_name,
         display_name |-> cls["DISPLAY_NAME"].value,
         description  |-> cls["DESCRIPTION"].value,
         version      |-> cls["VERSION"].value,
         author       |-> cls["AUTHOR"].value,
         is_available |-> c.error_info = NoError,
         error_info   |-> c.error_info,
         enabled      |-> load_plugin_config_enabled(c.file)]

ContractInit ==
    /\ \E n \in AttrChoices("NAME"), d \in AttrChoices("DISPLAY_NAME"),
          s \in AttrChoices("DESCRIPTION"), v \in AttrChoices("VERSION"),
          a \in AttrChoices("AUTHOR") :
          pk_class = [NAME |-> n, DISPLAY_NAME |-> d, DESCRIPTION |-> s,
                      VERSION |-> v, AUTHOR |-> a]
    /\ pk_file \in ConfigFiles
    /\ pk_seen = <<>>
    /\ pk_reports = <<>>

\* the package of demo_plugin: NAME inherited, no config.json in the tree
ContractIdle ==
    /\ pk_class = [NAME |-> [declared |-> FALSE, value |-> BaseDefault("NAME")],
                   DISPLAY_NAME |-> [declared |-> TRUE, value |-> OwnValue("DISPLAY_NAME")],
                   DESCRIPTION |-> [declared |-> TRUE, value |-> OwnValue("DESCRIPTION")],
                   VERSION |-> [declared |-> TRUE, value |-> BaseDefault("VERSION")],
                   AUTHOR |-> [declared |-> TRUE, value |-> OwnValue("AUTHOR")]]
    /\ pk_file = NoConfigFile
    /\ pk_seen = <<>>
    /\ pk_reports = <<>>

\* discover_plugins / _get_plugin_info on the package: a temporary instance
\* is constructed and asked for its plugin info
DiscoverPackage ==
    /\ Len(pk_reports) < MaxScans
    /\ pk_seen' = Append(pk_seen, pk_file)
    /\ pk_file' = check_plugin_compliance(pk_class, pk_file).file
    /\ pk_reports' = Append(pk_reports, get_plugin_info(pk_class, pk_file))
    /\ UNCHANGED pk_class
    /\ UNCHANGED nonContractVars

ContractNext == DiscoverPackage

(***************************************************************************)
(* Little capturer: the image processor's edit history                     *)
(* src/plugins/little_capturer/utils/image_processor.py                    *)
(*                                                                         *)
(* A pixmap is modelled by the number of annotations drawn on it; a        *)
(* captured image handed to set_image carries none.                        *)
(***************************************************************************)

\* Most annotations drawn on one image in a run of the model.
MaxEdits == 22

\* max_history of _add_to_history
max_history == 20

ImageInit ==
    /\ ip_current = {}
    /\ ip_history = <<>>
    /\ ip_index = -1

ImageIdle == ImageInit

IP == [current |-> ip_current, history |-> ip_history, index |-> ip_index]

SetIP(r) ==
    /\ ip_current' = r.current
    /\ ip_history' = r.history
    /\ ip_index' = r.index

\* seq[-n:] of Python
LastN(seq, n) ==
    IF Len(seq) <= n THEN seq ELSE SubSeq(seq, Len(seq) - n + 1, Len(seq))

add_to_history_untrimmed(S, pixmap) ==
    LET cut == IF S.index < Len(S.history) - 1
                   THEN SubSeq(S.history, 1, S.index + 1)
                   ELSE S.history
        h1 == Append(cut, pixmap)
    IN  [S EXCEPT !.history = h1, !.index = Len(h1) - 1, !.current = {pixmap}]

\* _add_to_history
add_to_history(S, pixmap) ==
    LET cut == IF S.index < Len(S.history) - 1
                   THEN SubSeq(S.history, 1, S.index + 1)
                   ELSE S.history
        h1 == Append(cut, pixmap)
        S1 == [S EXCEPT !.history = h1, !.index = Len(h1) - 1,
                        !.current = {pixmap}]
    IN  IF Len(h1) > max_history
            THEN [S1 EXCEPT !.history = LastN(h1, max_history),
                            !.index = Len(LastN(h1, max_history)) - 1]
            ELSE S1

\* set_image(pixmap); null stands for a null pixmap
set_image(S, null) ==
    IF null THEN S
    ELSE [S EXCEPT !.current = {0}, !.history = <<0>>, !.index = 0]

\* add_text_annotation, add_rectangle, add_arrow: a copy of the current
\* image with one more annotation is pushed onto the history
annotate(S) ==
    IF S.current = {} THEN S
    ELSE add_to_history(S, (CHOOSE c \in S.current : TRUE) + 1)

\* An undo that steps the index back and leaves the current image alone.
undo_keeps_image(S) ==
    IF S.index <= 0 THEN S ELSE [S EXCEPT !.index = S.index - 1]

\* undo
undo(S) ==
    IF S.index <= 0 THEN S
    ELSE [S EXCEPT !.index = S.index - 1,
                   !.current = {S.history[S.index]}]

\* redo
redo(S) ==
    IF S.index >= Len(S.history) - 1 THEN S
    ELSE [S EXCEPT !.index = S.index + 1,
                   !.current = {S.history[S.index + 2]}]

\* clear_history
clear_history(S) == [S EXCEPT !.history = <<>>, !.index = -1]

SetImage(null) ==
    /\ SetIP(set_image(IP, null))
    /\ UNCHANGED nonImageVars

CanAnnotate == \A c \in ip_current : c < MaxEdits

AddTextAnnotation ==
    /\ CanAnnotate
    /\ SetIP(annotate(IP))
    /\ UNCHANGED nonImageVars

AddRectangle ==
    /\ CanAnnotate
    /\ SetIP(annotate(IP))
    /\ UNCHANGED nonImageVars

AddArrow ==
    /\ CanAnnotate
    /\ SetIP(annotate(IP))
    /\ UNCHANGED nonImageVars

Undo ==
    /\ SetIP(undo(IP))
    /\ UNCHANGED nonImageVars

Redo ==
    /\ SetIP(redo(IP))
    /\ UNCHANGED nonImageVars

ClearHistory ==
    /\ SetIP(clear_history(IP))
    /\ UNCHANGED nonImageVars

ImageNext ==
    \/ \E null \in BOOLEAN : SetImage(null)
    \/ AddTextAnnotation
    \/ AddRectangle
    \/ AddArrow
    \/ Undo
    \/ Redo
    \/ ClearHistory

(***************************************************************************)
(* Web toolkit page Libre CMD: executing a workflow                        *)
(* src/plugins/support_web_toolkit/pages/6_Libre_CMD.py                    *)
(*                                                                         *)
(* The page is a Streamlit script.  A widget call returns the widget's     *)
(* current value at once; a change the user makes to a widget asks for a   *)
(* rerun, which ends the running script at its next Streamlit call and     *)
(* runs the script again, and the state of a widget a run does not render  *)
(* is dropped.                                                             *)
(***************************************************************************)

\* Number of steps of the workflow that is run.
MaxSteps == 3

Steps == 1..MaxSteps

NoRadios == [i \in Steps |-> "absent"]

WorkflowInit ==
    /\ wf_pc = <<"idle", 0>>
    /\ wf_results = <<>>
    /\ wf_in_progress = FALSE
    /\ wf_radio = NoRadios
    /\ wf_rerun = FALSE
    /\ wf_started = {}
    /\ wf_abortedAt = 0

WorkflowIdle == WorkflowInit

\* st.radio(..., [continue, stop], key=continue_radio_<i>): the widget's
\* state, the first option when it has none
radio_value(i) == IF wf_radio[i] = "absent" THEN "continue" ELSE wf_radio[i]

\* The radios a run with these results has rendered.
Rendered(results) ==
    {i \in 1..Len(results) : ~results[i] /\ i < MaxSteps}

\* The end of the for loop: execution_in_progress = False; the run is over
\* and the widgets it did not render lose their state.
FinishRun(results, radio) ==
    /\ wf_pc' = <<"idle", 0>>
    /\ wf_in_progress' = FALSE
    /\ wf_radio' = [i \in Steps |-> IF i \in Rendered(results) THEN radio[i]
                                                           ELSE "absent"]

\* A pending rerun ends the script at a Streamlit call; the rerun does not
\* enter the execution block (execute_button is False) and renders no radio.
Interrupted ==
    /\ wf_pc' = <<"idle", 0>>
    /\ wf_radio' = NoRadios
    /\ wf_rerun' = FALSE
    /\ UNCHANGED <<wf_results, wf_in_progress, wf_started, wf_abortedAt>>

\* The user clicks the execute button, enabled while no execution is in
\* progress.
ExecuteWorkflowClick ==
    /\ wf_pc = <<"idle", 0>>
    /\ ~wf_in_progress
    /\ wf_results' = <<>>
    /\ wf_in_progress' = TRUE
    /\ wf_pc' = <<"start", 1>>
    /\ wf_started' = {}
    /\ wf_abortedAt' = 0
    /\ wf_rerun' = FALSE
    /\ UNCHANGED wf_radio
    /\ UNCHANGED nonWorkflowVars

\* The head of the loop body for step i: the status widgets are written and
\* execute_ssh_command is called.
StartStep(i) ==
    /\ wf_pc = <<"start", i>>
    /\ IF wf_rerun
          THEN Interrupted
          ELSE /\ wf_pc' = <<"cmd", i>>
               /\ wf_started' = wf_started \cup {i}
               /\ UNCHANGED <<wf_results, wf_in_progress, wf_radio, wf_rerun,
                              wf_abortedAt>>
    /\ UNCHANGED nonWorkflowVars

\* execute_ssh_command returns for step i; the rest of the loop body runs:
\* the result is stored and, after a failure that is not the last step, the
\* radio is rendered and its value decides between break and the next step.
CommandReturns(i, success) ==
    /\ wf_pc = <<"cmd", i>>
    /\ IF wf_rerun
          THEN Interrupted
          ELSE LET results == Append(wf_results, success)
                   asked == ~success /\ i < MaxSteps
                   radio == IF asked THEN [wf_radio EXCEPT ![i] = radio_value(i)]
                                     ELSE wf_radio
               IN  /\ wf_results' = results
                   /\ IF i = MaxSteps \/ (asked /\ radio_value(i) = "stop")
                         THEN FinishRun(results, radio)
                         ELSE /\ wf_pc' = <<"start", i + 1>>
                              /\ wf_radio' = radio
                              /\ UNCHANGED wf_in_progress
                   /\ UNCHANGED <<wf_rerun, wf_started, wf_abortedAt>>
    /\ UNCHANGED nonWorkflowVars

\* The user picks an option of a rendered radio.  While the script runs the
\* change asks for a rerun; when it is over the rerun happens at once.
UserChoosesRadio(i, v) ==
    /\ wf_radio[i] \notin {"absent", v}
    /\ wf_abortedAt' = IF v = "stop" THEN i ELSE 0
    /\ IF wf_pc = <<"idle", 0>>
          THEN /\ wf_radio' = NoRadios
               /\ UNCHANGED wf_rerun
          ELSE /\ wf_radio' = [wf_radio EXCEPT ![i] = v]
               /\ wf_rerun' = TRUE
    /\ UNCHANGED <<wf_pc, wf_results, wf_in_progress, wf_started>>
    /\ UNCHANGED nonWorkflowVars

\* The user picks the workflow again in the selector after picking another:
\* step_results and execution_in_progress are reset.
ReselectWorkflow ==
    /\ wf_pc = <<"idle", 0>>
    /\ wf_results' = <<>>
    /\ wf_in_progress' = FALSE
    /\ wf_radio' = NoRadios
    /\ UNCHANGED <<wf_pc, wf_rerun, wf_started, wf_abortedAt>>
    /\ UNCHANGED nonWorkflowVars

WorkflowNext ==
    \/ ExecuteWorkflowClick
    \/ \E i \in Steps : StartStep(i)
    \/ \E i \in Steps, success \in BOOLEAN : CommandReturns(i, success)
    \/ \E i \in Steps, v \in {"continue", "stop"} : UserChoosesRadio(i, v)
    \/ ReselectWorkflow

(***************************************************************************)
(* Web toolkit page Libre CMD: execute_ssh_command                         *)
(* src/plugins/support_web_toolkit/pages/6_Libre_CMD.py                    *)
(*                                                                         *)
(* Time is counted in whole seconds from start_time.  Messages are the     *)
(* pieces of the formatted strings.                                        *)
(***************************************************************************)

\* Largest step timeout that is tried.
MaxTimeout == 14

\* The smallest timeout the step editor accepts.
MinTimeout == 10

Timeouts == {MinTimeout, MinTimeout + 2, MaxTimeout}

max_idle_time == 10

\* Seconds between two passes of the read loop: the sleep, or longer when
\* the process was held up.
Elapsed == {1, 3}

NoReturn == [success |-> FALSE, msg |-> <<"none">>]

TimeoutMsg(timeout) ==
    <<"Command execution timeout after ", timeout, " seconds">>

IdleMsg ==
    <<"Command execution idle timeout after ", max_idle_time,
      " seconds of inactivity">>

SshInit ==
    /\ ssh_pc = "idle"
    /\ ssh_timeout = MinTimeout
    /\ ssh_now = 0
    /\ ssh_last = 0
    /\ ssh_ret = NoReturn

SshIdle == SshInit

total_timed_out(now, timeout) == now > timeout

idle_timed_out_never(now, last) == FALSE

idle_timed_out(now, last) == now - last > max_idle_time

Return(success, msg) ==
    /\ ssh_pc' = "returned"
    /\ ssh_ret' = [success |-> success, msg |-> msg]

\* The call up to the read loop: connect and exec_command, which may raise.
ExecuteSshCommand(timeout, connected) ==
    /\ ssh_pc \in {"idle", "returned"}
    /\ ssh_timeout' = timeout
    /\ ssh_now' = 0
    /\ ssh_last' = 0
    /\ IF connected
          THEN ssh_pc' = "loop" /\ ssh_ret' = NoReturn
          ELSE Return(FALSE, <<"Connection timeout. Please check hostname and network connectivity.">>)
    /\ UNCHANGED nonSshVars

\* One pass of the while loop.  exited: exit_status_ready(); output: the
\* channel has bytes to read; readable: reading them does not raise; clean:
\* nothing on stderr and exit status 0; dt: time until the next pass.
LoopPass(exited, output, readable, clean, dt) ==
    /\ ssh_pc = "loop"
    /\ IF total_timed_out(ssh_now, ssh_timeout)
          THEN /\ Return(FALSE, TimeoutMsg(ssh_timeout))
               /\ UNCHANGED <<ssh_now, ssh_last>>
       ELSE IF idle_timed_out(ssh_now, ssh_last)
          THEN /\ Return(FALSE, IdleMsg)
               /\ UNCHANGED <<ssh_now, ssh_last>>
       ELSE IF ~readable
          THEN /\ Return(FALSE, IF exited THEN <<"Failed to read command output: ">>
                                          ELSE <<"Error reading command output: ">>)
               /\ UNCHANGED <<ssh_now, ssh_last>>
       ELSE IF exited
          THEN /\ Return(clean, IF clean THEN <<"output">> ELSE <<"error">>)
               /\ ssh_last' = IF output THEN ssh_now ELSE ssh_last
               /\ UNCHANGED ssh_now
       ELSE /\ ssh_last' = IF output THEN ssh_now ELSE ssh_last
            /\ ssh_now' = ssh_now + dt
            /\ UNCHANGED <<ssh_pc, ssh_ret>>
    /\ UNCHANGED ssh_timeout
    /\ UNCHANGED nonSshVars

SshNext ==
    \/ \E timeout \in Timeouts, connected \in BOOLEAN :
           ExecuteSshCommand(timeout, connected)
    \/ \E exited, output, readable, clean \in BOOLEAN, dt \in Elapsed :
           LoopPass(exited, output, readable, clean, dt)

(***************************************************************************)
(* Web toolkit page Todo List                                              *)
(* src/plugins/support_web_toolkit/pages/4_Todo_List.py                    *)
(*                                                                         *)
(* The clock counts ticks; a second is two ticks and a week four ticks.    *)
(* A pending item is its number, a done item a record of its number and    *)
(* its done_time string, the number of whole seconds it was written at.    *)
(***************************************************************************)

\* Number of times an item enters the pending list, and the last tick of
\* the clock.
MaxTodos == 3
MaxClock == 9

NoPrune == [ran |-> FALSE, now |-> 0, before |-> <<>>, after |-> <<>>,
            todo_before |-> <<>>, todo_after |-> <<>>]

TodoInit ==
    /\ td_todo = <<>>
    /\ td_done = <<>>
    /\ td_now = 0
    /\ td_added = 0
    /\ td_lastPrune = NoPrune

TodoIdle == TodoInit

\* datetime.now().strftime('%Y%m%d %H:%M:%S'): the fraction of a second is lost
strftime(t) == t \div 2

\* datetime.strptime(s, '%Y%m%d %H:%M:%S')
strptime(s) == s * 2

timedelta(weeks) == weeks * 4

clean_old_done_todos_keeps_all(done_list, now) == done_list

clean_old_done_todos(done_list, now) ==
    LET two_weeks_ago == now - timedelta(2)
        keep(item) == strptime(item.done_time) > two_weeks_ago
    IN  SelectSeq(done_list, keep)

Pruned(done_list, todo_list) ==
    [ran |-> TRUE, now |-> td_now, before |-> done_list,
     after |-> clean_old_done_todos(done_list, td_now),
     todo_before |-> todo_list, todo_after |-> todo_list]

\* add_todo: a new pending item.
AddTodo ==
    /\ td_added < MaxTodos
    /\ td_added' = td_added + 1
    /\ td_todo' = Append(td_todo, td_added + 1)
    /\ UNCHANGED <<td_done, td_now, td_lastPrune>>
    /\ UNCHANGED nonTodoVars

\* complete_todo(index): the item moves to the done list with its stamp and
\* the done list is pruned before both lists are saved.
CompleteTodo(index) ==
    /\ index \in 1..Len(td_todo)
    /\ LET todo_list == RemoveAt(td_todo, index)
           completed == [id |-> td_todo[index], done_time |-> strftime(td_now)]
           p == Pruned(Append(td_done, completed), todo_list)
       IN  /\ td_todo' = p.todo_after
           /\ td_done' = p.after
           /\ td_lastPrune' = p
    /\ UNCHANGED <<td_now, td_added>>
    /\ UNCHANGED nonTodoVars

\* The clean button of the completed list: save_todos(todo_list, cleaned_done).
CleanOldCompleted ==
    /\ td_done # <<>>
    /\ LET p == Pruned(td_done, td_todo)
       IN  /\ td_todo' = p.todo_after
           /\ td_done' = p.after
           /\ td_lastPrune' = p
    /\ UNCHANGED <<td_now, td_added>>
    /\ UNCHANGED nonTodoVars

\* restore_todo(index): a done item becomes pending again, without its stamp.
RestoreTodo(index) ==
    /\ index \in 1..Len(td_done)
    /\ td_added < MaxTodos
    /\ td_added' = td_added + 1
    /\ td_done' = RemoveAt(td_done, index)
    /\ td_todo' = Append(td_todo, td_done[index].id)
    /\ UNCHANGED <<td_now, td_lastPrune>>
    /\ UNCHANGED nonTodoVars

\* delete_todo(index)
DeleteTodo(index) ==
    /\ index \in 1..Len(td_todo)
    /\ td_todo' = RemoveAt(td_todo, index)
    /\ UNCHANGED <<td_done, td_now, td_added, td_lastPrune>>
    /\ UNCHANGED nonTodoVars

\* Time passes.
ClockTick(d) ==
    /\ td_now + d <= MaxClock
    /\ td_now' = td_now + d
    /\ UNCHANGED <<td_todo, td_done, td_added, td_lastPrune>>
    /\ UNCHANGED nonTodoVars

TodoNext ==
    \/ AddTodo
    \/ \E index \in 1..MaxTodos : CompleteTodo(index)
    \/ CleanOldCompleted
    \/ \E index \in 1..MaxTodos : RestoreTodo(index)
    \/ \E index \in 1..MaxTodos : DeleteTodo(index)
    \/ \E d \in {1, 3} : ClockTick(d)

(***************************************************************************)
(* A loaded plugin's settings: src/core/plugin_base.py, and                *)
(* update_plugin_config of src/core/plugin_manager.py                      *)
(***************************************************************************)

\* Values of a configuration entry are 0..MaxValue.
MaxValue == 1

ConfigValues == 0..MaxValue

AvailableKeys == {"enabled", "keyboard_shortcut"}

SettingKeys == {"click_count"}

\* The config.json of a plugin as generated, every entry 0.
FreshConfig ==
    [available_config |-> [k \in AvailableKeys |-> 0],
     settings |-> [k \in SettingKeys |-> 0]]

NoSet == [called |-> FALSE, key |-> "none", value |-> 0,
          before |-> FreshConfig, after |-> FreshConfig]

\* The plugin has been constructed: _load_plugin_config has read the file.
SettingsInit ==
    /\ st_file = FreshConfig
    /\ st_config = FreshConfig
    /\ st_lastSet = NoSet

SettingsIdle == SettingsInit

\* _load_plugin_config: self._config = json.load(f)
load_plugin_config(file, config) == file

\* _save_plugin_config: json.dump(self._config, f)
save_plugin_config(file, config) == config

\* set_setting: the entry goes into self._config, which is then saved.
set_setting(file, config, key, value) ==
    LET c == [config EXCEPT !.settings[key] = value]
    IN  [file |-> save_plugin_config(file, c), config |-> c]

\* update_plugin_config: read the file, update available_config, write it.
update_plugin_config(file, new_config) ==
    [file EXCEPT !.available_config =
        [k \in AvailableKeys |-> IF k \in DOMAIN new_config THEN new_config[k]
                                                            ELSE @[k]]]

\* A click in the plugin's panel stores a setting.
SetSetting(key, value) ==
    /\ LET r == set_setting(st_file, st_config, key, value)
       IN  /\ st_file' = r.file
           /\ st_config' = r.config
           /\ st_lastSet' = [called |-> TRUE, key |-> key, value |-> value,
                             before |-> st_file, after |-> r.file]
    /\ UNCHANGED nonSettingsVars

\* get_setting: self._config holds available_config, so the file is read
\* again before the value is looked up.
GetSetting ==
    /\ st_config' = load_plugin_config(st_file, st_config)
    /\ UNCHANGED <<st_file, st_lastSet>>
    /\ UNCHANGED nonSettingsVars

\* The configuration dialog of the plugin manager is accepted.
UpdatePluginConfig(key, value) ==
    /\ st_file' = update_plugin_config(st_file, [k \in {key} |-> value])
    /\ UNCHANGED <<st_config, st_lastSet>>
    /\ UNCHANGED nonSettingsVars

SettingsNext ==
    \/ \E key \in SettingKeys, value \in ConfigValues : SetSetting(key, value)
    \/ GetSetting
    \/ \E key \in AvailableKeys, value \in ConfigValues :
           UpdatePluginConfig(key, value)

(***************************************************************************)
(* Little Capturer: the capture button of the plugin's panel               *)
(* src/plugins/little_capturer/__init__.py                                 *)
(***************************************************************************)

NoButton == <<"none">>

\* The default of get_setting('keyboard_shortcut', ...) in
\* _get_capture_button_text.
ButtonDefaultShortcut == <<"Alt", "Shift", "W">>

ButtonInit == lc_button = NoButton

ButtonIdle == ButtonInit

\* _get_capture_button_text: the hotkey put between the parentheses.
get_capture_button_text(S) ==
    IF S.setting = {} THEN ButtonDefaultShortcut
    ELSE CHOOSE h \in S.setting : TRUE

\* create_widget: the capture button is made with its text.
LCCreateWidget ==
    /\ lc_state = "initialized"
    /\ lc_button = NoButton
    /\ lc_button' = get_capture_button_text(HS)
    /\ UNCHANGED hotkeyVars
    /\ UNCHANGED nonHotkeyButtonVars

\* keyboard_shortcut is changed in the plugin's configuration.
ShortcutConfigured(h) ==
    /\ lc_setting # {h}
    /\ SetHS([HS EXCEPT !.setting = {h}])
    /\ UNCHANGED lc_button
    /\ UNCHANGED nonHotkeyButtonVars

\* on_config_changed: the text of the button, when there is one, is set anew.
OnConfigChanged ==
    /\ lc_state = "initialized"
    /\ lc_button' = IF lc_button = NoButton THEN lc_button
                    ELSE get_capture_button_text(HS)
    /\ UNCHANGED hotkeyVars
    /\ UNCHANGED nonHotkeyButtonVars

ButtonNext ==
    \/ LCInitialize
    \/ LCCleanup
    \/ LCCreateWidget
    \/ \E h \in HotkeyInputs : ShortcutConfigured(h)
    \/ OnConfigChanged

LauncherIdle == LauncherInit

InitLauncher == LauncherInit /\ PluginsIdle /\ PvrIdle /\ HotkeyIdle /\ ServerIdle /\ CaptureIdle /\ ContractIdle /\ ImageIdle /\ WorkflowIdle /\ SshIdle /\ TodoIdle /\ SettingsIdle /\ ButtonIdle

NextLauncher == LauncherNext

SpecLauncher == InitLauncher /\ [][NextLauncher]_vars

InitPlugins == PluginsInit /\ LauncherIdle /\ PvrIdle /\ HotkeyIdle /\ ServerIdle /\ CaptureIdle /\ ContractIdle /\ ImageIdle /\ WorkflowIdle /\ SshIdle /\ TodoIdle /\ SettingsIdle /\ ButtonIdle

NextPlugins == PluginsNext

SpecPlugins == InitPlugins /\ [][NextPlugins]_vars

InitTabs == PluginsIdle /\ LauncherIdle /\ PvrIdle /\ HotkeyIdle /\ ServerIdle /\ CaptureIdle /\ ContractIdle /\ ImageIdle /\ WorkflowIdle /\ SshIdle /\ TodoIdle /\ SettingsIdle /\ ButtonIdle

NextTabs == TabsNext

SpecTabs == InitTabs /\ [][NextTabs]_vars

\* Loading and unloading alone, with a plugin's initialize() succeeding or
\* failing.
InitLoad == InitPlugins

NextLoad ==
    \/ InitPluginManager
    \/ \E n \in Names, init_ok \in BOOLEAN : LoadPlugin(n, init_ok)
    \/ \E n \in Names : UnloadPlugin(n)

SpecLoad == InitLoad /\ [][NextLoad]_vars

InitPvr == PvrInit /\ LauncherIdle /\ PluginsIdle /\ HotkeyIdle /\ ServerIdle /\ CaptureIdle /\ ContractIdle /\ ImageIdle /\ WorkflowIdle /\ SshIdle /\ TodoIdle /\ SettingsIdle /\ ButtonIdle

NextPvr == PvrNext

SpecPvr == InitPvr /\ [][NextPvr]_vars

InitHotkey == HotkeyInit /\ LauncherIdle /\ PluginsIdle /\ PvrIdle /\ ServerIdle /\ CaptureIdle /\ ContractIdle /\ ImageIdle /\ WorkflowIdle /\ SshIdle /\ TodoIdle /\ SettingsIdle /\ ButtonIdle

NextHotkey == HotkeyNext

SpecHotkey == InitHotkey /\ [][NextHotkey]_vars

\* The hook thread and the GUI event loop keep running.
SpecHotkeyFair == SpecHotkey /\ WF_vars(NextHotkey)

InitServer == ServerInit /\ LauncherIdle /\ PluginsIdle /\ PvrIdle /\ HotkeyIdle /\ CaptureIdle /\ ContractIdle /\ ImageIdle /\ WorkflowIdle /\ SshIdle /\ TodoIdle /\ SettingsIdle /\ ButtonIdle

NextServer == ServerNext

SpecServer == InitServer /\ [][NextServer]_vars

InitCapture ==
    CaptureInit /\ LauncherIdle /\ PluginsIdle /\ PvrIdle /\ HotkeyIdle /\ ServerIdle
        /\ ContractIdle /\ ImageIdle /\ WorkflowIdle /\ SshIdle /\ TodoIdle /\ SettingsIdle /\ ButtonIdle

NextCapture == CaptureNext

SpecCapture == InitCapture /\ [][NextCapture]_vars

InitContract ==
    ContractInit /\ LauncherIdle /\ PluginsIdle /\ PvrIdle /\ HotkeyIdle /\ ServerIdle
        /\ CaptureIdle /\ ImageIdle /\ WorkflowIdle /\ SshIdle /\ TodoIdle /\ SettingsIdle /\ ButtonIdle

NextContract == ContractNext

SpecContract == InitContract /\ [][NextContract]_vars

InitImage ==
    ImageInit /\ LauncherIdle /\ PluginsIdle /\ PvrIdle /\ HotkeyIdle /\ ServerIdle
        /\ CaptureIdle /\ ContractIdle /\ WorkflowIdle /\ SshIdle /\ TodoIdle /\ SettingsIdle /\ ButtonIdle

NextImage == ImageNext

SpecImage == InitImage /\ [][NextImage]_vars

InitWorkflow ==
    WorkflowInit /\ LauncherIdle /\ PluginsIdle /\ PvrIdle /\ HotkeyIdle /\ ServerIdle
        /\ CaptureIdle /\ ContractIdle /\ ImageIdle /\ SshIdle /\ TodoIdle /\ SettingsIdle /\ ButtonIdle

NextWorkflow == WorkflowNext

SpecWorkflow == InitWorkflow /\ [][NextWorkflow]_vars

InitSsh ==
    SshInit /\ LauncherIdle /\ PluginsIdle /\ PvrIdle /\ HotkeyIdle /\ ServerIdle
        /\ CaptureIdle /\ ContractIdle /\ ImageIdle /\ WorkflowIdle /\ TodoIdle /\ SettingsIdle /\ ButtonIdle

NextSsh == SshNext

SpecSsh == InitSsh /\ [][NextSsh]_vars

InitTodo ==
    TodoInit /\ LauncherIdle /\ PluginsIdle /\ PvrIdle /\ HotkeyIdle /\ ServerIdle
        /\ CaptureIdle /\ ContractIdle /\ ImageIdle /\ WorkflowIdle /\ SshIdle /\ SettingsIdle /\ ButtonIdle

NextTodo == TodoNext

SpecTodo == InitTodo /\ [][NextTodo]_vars

InitSettings ==
    SettingsInit /\ LauncherIdle /\ PluginsIdle /\ PvrIdle /\ HotkeyIdle /\ ServerIdle
        /\ CaptureIdle /\ ContractIdle /\ ImageIdle /\ WorkflowIdle /\ SshIdle /\ TodoIdle /\ ButtonIdle

NextSettings == SettingsNext

SpecSettings == InitSettings /\ [][NextSettings]_vars

InitButton ==
    ButtonInit /\ LauncherIdle /\ PluginsIdle /\ PvrIdle /\ HotkeyInit /\ ServerIdle
        /\ CaptureIdle /\ ContractIdle /\ ImageIdle /\ WorkflowIdle /\ SshIdle /\ TodoIdle /\ SettingsIdle

NextButton == ButtonNext

SpecButton == InitButton /\ [][NextButton]_vars

(***************************************************************************)
(* Claims                                                                  *)
(***************************************************************************)

\* C1: a process launched while an instance is already running the shell
\* does not become an instance itself: it sends ACTIVATE and exits with
\* code 0.
C1_SecondLaunchExits ==
    \A p \in launchedWhileRunning :
        /\ pc[p] \notin {"create_app", "listened", "running"}
        /\ pc[p] = "exited" => exitCode[p] = {0}

\* C2: at most one process runs the application shell as primary instance.
C2_AtMostOnePrimary == Cardinality(Primaries) <= 1

EnabledErrors ==
    {"config.json missing required field: available_config.enabled",
     "config.json 'enabled' field must be boolean"}

\* C3: right after load_plugins(), no plugin that discovery reports as not
\* available, with an error_info about available_config.enabled, is among
\* the plugins load_plugins() loaded.
C3_UnavailableNotAutoLoaded ==
    lastOp.op = "load_plugins" =>
        \A n \in autoLoaded :
            ~(/\ ~discovered[n].is_available
              /\ discovered[n].error_info \in EnabledErrors)

\* C4: no two initialized instances carry the same plugin name; a
\* load_plugin call for a loaded plugin returns True and constructs no
\* instance; an unload_plugin call for a plugin that is not loaded returns
\* True and leaves manager, files and main window as they were.
C4_OneInstancePerName ==
    /\ [](\A a, b \in initialized : a[1] = b[1] => a = b)
    /\ [][/\ (lastOp'.op = "load_plugin" /\ lastOp'.was_loaded) =>
                (/\ lastOp'.result
                 /\ created' = created
                 /\ plugins' = plugins
                 /\ initialized' = initialized)
          /\ (lastOp'.op = "unload_plugin" /\ ~lastOp'.was_loaded) =>
                (/\ lastOp'.result
                 /\ PS' = PS)]_vars

\* C4 witness: load_plugin has just been called for a plugin that was loaded.
C4_Witness ==
    /\ lastOp.op = "load_plugin"
    /\ lastOp.was_loaded
    /\ lastOp.result
    /\ plugins[lastOp.name] # 0

\* C5: after enable_plugin(name) returned True the plugin is loaded, and
\* after disable_plugin(name) returned True it is not loaded.
C5_EnableDisableFollowLoaded ==
    /\ (lastOp.op = "enable_plugin" /\ lastOp.result) => plugins[lastOp.name] # 0
    /\ (lastOp.op = "disable_plugin" /\ lastOp.result) => plugins[lastOp.name] = 0

\* C6: after unload_plugin(name) unloaded a plugin and returned True, no tab
\* of the main window holds a panel of that plugin that is still shown.
C6_NoTabAfterUnload ==
    (lastOp.op = "unload_plugin" /\ lastOp.was_loaded /\ lastOp.result) =>
        \A i \in 1..Len(tabs) :
            tabs[i][1] = lastOp.name => tabs[i] \in closedW

\* C7: every direct change of a widget is made by the GUI thread.
C7_OnlyGuiThreadTouchesWidgets == \A w \in gui_writes : w[2] = "gui"

\* C7 case: a report worker has run steps of the report process.
C7_Witness == \E w \in Workers : pvr_wpc[w] \in {"filter", "process", "save", "ended"}

C9_TriggerLeadsToCapture ==
    (lc_state = "initialized" /\ hk_triggers > 0)
        ~> (\E r \in capture_runs : r[1] = "hotkey")

\* C10: a click on the stop button while the server is starting changes
\* neither the status nor the child process.
C10_StopWhileStartingRejected ==
    srv_lastStop.before = "starting" =>
        srv_lastStop.after = "starting" /\ ~srv_lastStop.killed

C10_Witness ==
    /\ srv_lastStop.before = "starting"
    /\ srv_status = "starting"
    /\ \E t \in ServerThreads : srv_child[t] = "alive"

\* C11: a server thread that finds its launch failed, or its child gone
\* without a stop having been asked for, emits server_error; and handling a
\* server_error leaves the status stopped, the URL cleared and the start
\* button usable.
C11_ErrorSurfacedAndStopped ==
    [][/\ \A t \in ServerThreads :
             /\ (srv_tpc[t] = "launch" /\ srv_tpc'[t] = "done")
                    => srv_queue' = Append(srv_queue, <<t, "server_error">>)
             /\ (/\ srv_tpc[t] \in {"sleep", "monitor"}
                 /\ srv_tpc'[t] = "done"
                 /\ srv_ref[t] /\ srv_child[t] = "dead" /\ ~srv_should_stop[t])
                    => srv_queue' = Append(srv_queue, <<t, "server_error">>)
       /\ (/\ srv_queue # <<>>
           /\ Head(srv_queue)[2] = "server_error"
           /\ srv_queue' = Tail(srv_queue))
              => (srv_status' = "stopped" /\ ~srv_url' /\ srv_start_enabled')
      ]_vars

C11_Witness ==
    /\ srv_status = "stopped"
    /\ srv_queue = <<>>
    /\ \E t \in ServerThreads :
          /\ srv_tpc[t] = "done"
          /\ srv_ref[t] /\ srv_child[t] = "dead" /\ ~srv_should_stop[t]

\* C12: a page asked for by a tool button while the server was stopped is
\* scheduled to open as soon as the server has signalled that it is up.
C12_PendingToolOpensOnStart ==
    (srv_wantTool # "none" /\ srv_status = "running")
        => srv_open_timer = srv_wantTool

\* C12 case: the server came up after a tool button was clicked while it was
\* stopped.
C12_Witness == srv_wantTool # "none" /\ srv_status = "running"

\* C13: at most one report worker is active at any time, a worker is started
\* only while none is active, and a Generate request is rejected only while
\* the referenced worker is running, with a warning logged and no new worker.
C13_AtMostOneWorker ==
    /\ [](Cardinality({w \in Workers : Active(w)}) <= 1)
    /\ [][/\ pvr_started' # pvr_started => \A w \in Workers : ~Active(w)
          /\ pvr_rejected' # pvr_rejected
                 => (/\ WorkerIsRunning
                     /\ pvr_started' = pvr_started
                     /\ pvr_wpc' = pvr_wpc
                     /\ <<"log_viewer", "gui">> \in gui_writes')]_vars

\* C13 case: a Generate request was rejected while a worker was running.
C13_Witness == pvr_rejected > 0 /\ \E w \in Workers : Active(w)

\* C14: a release that ends a drag on the overlay emits exactly one
\* area-selected event with the dragged rectangle and hides the overlay when
\* the rectangle is at least 5 by 5 pixels; for a smaller rectangle, and for
\* a release that ends no drag, it emits nothing and the overlay stays open.
C14_ReleaseEmitsAtOrAboveMinimum ==
    cw_lastRelease.seen =>
        IF \E r \in cw_lastRelease.dragged :
               r.w >= MinSelection /\ r.h >= MinSelection
            THEN /\ \E r \in cw_lastRelease.dragged :
                        cw_lastRelease.emitted = <<r>>
                 /\ ~cw_lastRelease.visible
            ELSE /\ cw_lastRelease.emitted = <<>>
                 /\ cw_lastRelease.visible

C14_Witness ==
    /\ cw_lastRelease.seen
    /\ \E r \in cw_lastRelease.dragged :
           (r.w = MinSelection \/ r.h = MinSelection)
           /\ r.w >= MinSelection /\ r.h >= MinSelection

\* C15: once Escape was pressed on the shown overlay, in a drag or not, the
\* overlay is hidden, the cancellation was signalled and that capture has
\* emitted no area-selected event.
C15_EscapeCancelsWithoutSelection ==
    cw_escPressed =>
        /\ ~cw.visible
        /\ cw.capture_cancelled
        /\ cw.area_selected = <<>>

C15_Witness == cw_escPressed /\ cw.selecting /\ ~mouse_down

\* the config.json in place after scan i
FileAfterScan(i) == IF i < Len(pk_seen) THEN pk_seen[i + 1] ELSE pk_file

\* the class declares all five identity fields with values of its own
DeclaresIdentity ==
    \A a \in IdentityFields :
        pk_class[a].declared /\ pk_class[a].value \notin {BaseDefault(a), UnknownTitle(a)}

C17_DefaultIdentityRejected ==
    \A i \in 1..Len(pk_reports) :
        (\E a \in IdentityFields : ~pk_class[a].declared) =>
            /\ ~pk_reports[i].is_available
            /\ pk_reports[i].error_info # NoError

C17_Witness ==
    /\ Len(pk_reports) >= 1
    /\ ~pk_class["AUTHOR"].declared
    /\ ~pk_reports[1].is_available

\* C18: after show_welcome_tab was called with the welcome tab closed, a
\* welcome tab is present and selected, whatever other tabs are open.
C18_WelcomeRecreated ==
    (lastOp.op = "show_welcome_tab" /\ lastOp.name = "welcome_closed") =>
        \E i \in 1..Len(tabs) : tabs[i] = Welcome /\ current = i

C18_Witness ==
    /\ lastOp.op = "show_welcome_tab"
    /\ lastOp.name = "welcome_closed"
    /\ Len(tabs) > 1

\* C19: a register_hotkey call that meets an already registered combination
\* or an unparsable string returns failure and leaves the registered hotkeys
\* with their callbacks, the listener and the running flag as they were.
C19_FailedRegisterHasNoEffect ==
    hk_lastRegister.met \in {"registered", "unparsable"} =>
        /\ ~hk_lastRegister.ok
        /\ hk_lastRegister.unchanged

C19_Witness ==
    /\ hk_lastRegister.met = "registered"
    /\ ~hk_lastRegister.ok
    /\ hk_running

\* C20: whatever set_image, annotation, undo, redo and clear_history calls
\* were made, the edit history holds at most 20 snapshots.
C20_HistoryBounded == Len(ip_history) <= max_history

C20_Witness ==
    /\ Len(ip_history) = max_history
    /\ ip_history[1] > 0
    /\ ip_index < Len(ip_history) - 1

\* C21: after a failure of a step that is not the last one the user is asked
\* whether to go on, and when the user chooses to stop at a failed step, no
\* later step of that run is executed.
C21_AbortStopsLaterSteps ==
    /\ \A i \in 1..Len(wf_results) :
           (~wf_results[i] /\ i < MaxSteps /\ wf_pc # <<"idle", 0>>)
               => wf_radio[i] # "absent"
    /\ wf_abortedAt # 0 => \A j \in wf_started : j <= wf_abortedAt

C21_Witness ==
    /\ wf_abortedAt # 0
    /\ wf_pc = <<"idle", 0>>
    /\ \E j \in wf_started : j > wf_abortedAt

\* C22: a call that returns when the command has been silent for longer than
\* the idle window, the overall timeout not being exceeded, returns a failure
\* with the idle-timeout message, which is not the overall-timeout message.
C22_IdleTimeoutDistinct ==
    (/\ ssh_pc = "returned"
     /\ ssh_now - ssh_last > max_idle_time
     /\ ssh_now <= ssh_timeout)
        => /\ ~ssh_ret.success
           /\ ssh_ret.msg = IdleMsg
           /\ ssh_ret.msg # TimeoutMsg(ssh_timeout)

C22_Witness ==
    /\ ssh_pc = "returned"
    /\ ssh_now - ssh_last > max_idle_time
    /\ ssh_now <= ssh_timeout
    /\ ssh_last > 0

\* C23: a run of the prune removes every done item whose stamp is older than
\* two weeks, keeps every done item whose stamp is less than two weeks old,
\* and leaves the pending list as it was.
C23_PruneByAge ==
    LET p == td_lastPrune
        Age(item) == p.now - strptime(item.done_time)
        Kept(item) == \E k \in 1..Len(p.after) : p.after[k] = item
    IN  p.ran =>
            /\ \A k \in 1..Len(p.before) :
                   /\ Age(p.before[k]) > timedelta(2) => ~Kept(p.before[k])
                   /\ Age(p.before[k]) < timedelta(2) => Kept(p.before[k])
            /\ p.todo_after = p.todo_before

C23_Witness ==
    /\ td_lastPrune.ran
    /\ Len(td_lastPrune.after) > 0
    /\ Len(td_lastPrune.after) < Len(td_lastPrune.before)
    /\ td_lastPrune.todo_before # <<>>

\* C24: whenever the status is stopped, no child process a server thread
\* has started is alive.
C24_StoppedMeansNoChild ==
    srv_status = "stopped" => \A t \in ServerThreads : srv_child[t] # "alive"

C24_Witness ==
    /\ srv_status = "stopped"
    /\ srv_started > 0
    /\ \E t \in ServerThreads : srv_child[t] = "dead" /\ srv_lastStop.killed

\* C25: once a stop asked by the user has completed and the status is
\* stopped, no server thread is started until the user asks for a start or
\* for a tool again.
C25_NoRestartAfterStop ==
    [][(srv_stopDone /\ srv_status = "stopped" /\ srv_stopDone')
          => srv_started' = srv_started]_vars

C25_Witness ==
    /\ srv_stopDone
    /\ srv_status = "stopped"
    /\ srv_open_timer # "none"

\* C26: a load_plugin call during which the plugin's initialize() returned
\* False leaves the plugin out of the loaded set, returns False and does not
\* emit plugin_loaded.
C26_FailedInitializeNotLoaded ==
    (lastOp.op = "load_plugin" /\ lastOp.initialize = "False") =>
        /\ plugins[lastOp.name] = 0
        /\ ~lastOp.result
        /\ "plugin_loaded" \notin lastOp.load_emits

C26_Witness ==
    /\ lastOp.op = "load_plugin"
    /\ lastOp.initialize = "False"
    /\ lastOp.name = "demo_plugin"
    /\ plugins["demo_plugin"] # 0

\* C27: set_setting(key, value) changes settings[key] in the file and nothing
\* else: available_config in the file, whatever update_plugin_config wrote
\* there since the plugin last read it, is as it was before the call.
C27_SetSettingKeepsAvailableConfig ==
    st_lastSet.called =>
        /\ st_lastSet.after.settings =
               [st_lastSet.before.settings EXCEPT ![st_lastSet.key] = st_lastSet.value]
        /\ st_lastSet.after.available_config = st_lastSet.before.available_config

C27_Witness ==
    /\ st_lastSet.called
    /\ st_lastSet.before.available_config # FreshConfig.available_config
    /\ st_lastSet.after.available_config = FreshConfig.available_config

\* C28: after any sequence of opening and closing plugin tabs, plugin_widgets
\* holds an entry for exactly the plugins that have an open tab.
C28_WidgetsMatchOpenTabs ==
    \A n \in Names :
        plugin_widgets[n] # NoWidget <=> \E i \in 1..Len(tabs) : tabs[i][1] = n

C28_Witness ==
    /\ lastOp.op = "close_tab"
    /\ \E n \in Names : plugin_widgets[n] # NoWidget
    /\ \E n \in Names : \A i \in 1..Len(tabs) : tabs[i][1] # n

\* C29 as stated: once an image has been set, after any sequence of edits,
\* undo, redo and clear_history, _edit_index is a valid index into the
\* history and the current image is the snapshot stored there.
C29_IndexAlwaysValid ==
    ip_current # {} =>
        /\ ip_index \in 0..(Len(ip_history) - 1)
        /\ ip_current = {ip_history[ip_index + 1]}

\* C29: once an image has been set, either _edit_index is a valid index into
\* the history and the current image is the snapshot stored there, or the
\* history has been emptied by clear_history and _edit_index is -1.
C29_IndexValidOrCleared ==
    ip_current # {} =>
        \/ /\ ip_history = <<>>
           /\ ip_index = -1
        \/ /\ ip_index \in 0..(Len(ip_history) - 1)
           /\ ip_current = {ip_history[ip_index + 1]}

C29_Witness ==
    /\ ip_current # {}
    /\ ip_current # {0}
    /\ ip_history = <<>>
    /\ ip_index = -1

\* C30: while the plugin is initialized and its panel exists, the hotkey in
\* the text of the capture button is a combination registered with the
\* hotkey manager.
C30_ButtonShowsRegisteredHotkey ==
    (lc_state = "initialized" /\ lc_button # NoButton) =>
        /\ normalize_hotkey(lc_button) # Invalid
        /\ \E k \in DOMAIN hk_hotkeys :
               KeySet(k) = KeySet(normalize_hotkey(lc_button))

C30_Witness ==
    /\ lc_state = "initialized"
    /\ lc_setting = {}
    /\ lc_button = ButtonDefaultShortcut
    /\ DOMAIN hk_hotkeys = {normalize_hotkey(DefaultShortcut)}

====
